---- MODULE Spec2Model ----
(***************************************************************************)
(* Verification model of the delta-based metadata store of the OpenCode   *)
(* auto-loader (class OpenCodeAutoLoader): snapshot files, delta journal, *)
(* delta applier, schema validator / repair and compaction.               *)
(*                                                                         *)
(* JSON documents are tagged values:                                       *)
(*   [t |-> "undef"]            JavaScript undefined (absent property)     *)
(*   [t |-> "null"]             null                                       *)
(*   [t |-> "str", s |-> ..]    string                                     *)
(*   [t |-> "num", n |-> ..]    number                                     *)
(*   [t |-> "arr", a |-> <<>>]  array                                      *)
(*   [t |-> "obj", o |-> f]     object, f a function from keys to values   *)
(* In every input of the model the containers on a delta path are plain   *)
(* objects (never arrays).                                                 *)
(***************************************************************************)
EXTENDS Integers, Sequences, FiniteSets, TLC

VARIABLES
  plain,        \* context-metadata.json     : [st |-> "absent"|"corrupt"|"json", v |-> value]
  gz,           \* context-metadata.json.gz  : same shape as plain
  journal,      \* context-deltas.jsonl      : [exists |-> BOOLEAN, lines |-> sequence of lines]
  md,           \* TRUE iff one of the markdown / session context files exists
  metadata,     \* this.metadata of the loader instance when the last operation returned
  writes,       \* number of operations so far that write a snapshot file (bounds the exploration)
  last,         \* what the last operation gave its caller and logged
  call,         \* a direct call of a pure method: inputs and, once done, the result
  history,      \* session-history.json         : same shape as plain
  registry,     \* PluginManager.plugins        : plugin name -> its PluginMetadata
  tasks,        \* the asynchronous calls in flight on the plugin manager and error handler
  handler,      \* ErrorHandler.errorCounts     : error key -> count
  appConfig,    \* ConfigManager.config        : the configuration object held in memory
  delivery      \* IncrementalDelivery         : milestones, results and the loop's position

vars == <<plain, gz, journal, md, metadata, writes, last, call, history, registry, tasks,
          handler, appConfig, delivery>>

\* the components other than the context loader
others == <<registry, tasks, handler, appConfig, delivery>>

\* those components before anything is registered, called or counted
OthersIdle ==
  registry = <<>> /\ tasks = <<>> /\ handler = <<>> /\ appConfig = <<>> /\ delivery = <<>>

----------------------------------------------------------------------------
(* JSON values *)

Undef == [t |-> "undef"]

Null == [t |-> "null"]

Str(s) == [t |-> "str", s |-> s]

Num(n) == [t |-> "num", n |-> n]

Arr(a) == [t |-> "arr", a |-> a]

Obj(o) == [t |-> "obj", o |-> o]

EmptyObj == Obj([k \in {} |-> Null])

\* JavaScript truthiness: !x is TRUE for undefined, null, '' and 0
Truthy(v) ==
  CASE v.t = "undef" -> FALSE
    [] v.t = "null"  -> FALSE
    [] v.t = "str"   -> v.s # ""
    [] v.t = "num"   -> v.n # 0
    [] OTHER         -> TRUE

\* typeof v === 'object' (true for objects, arrays and null)
TypeofObject(v) == v.t \in {"obj", "arr", "null"}

\* property read v[k]; a missing property reads as undefined
Get(v, k) == IF v.t = "obj" /\ k \in DOMAIN v.o THEN v.o[k] ELSE Undef

\* property write v[k] = x on an object
Put(v, k, x) == Obj([j \in (DOMAIN v.o) \cup {k} |-> IF j = k THEN x ELSE v.o[j]])

\* delete v[k]
Del(v, k) == Obj([j \in (DOMAIN v.o) \ {k} |-> v.o[j]])

\* Array.prototype.slice(1): every element but the oldest
DropOldest(a, n) == IF a = <<>> THEN a ELSE Tail(a)

\* Array.prototype.slice(-n)
SliceLast(a, n) == IF Len(a) <= n THEN a ELSE SubSeq(a, Len(a) - n + 1, Len(a))

\* target += value for a number target: numeric sum, or string concatenation
PlusAssign(target, value) ==
  CASE value.t = "num" -> Num(target.n + value.n)
    [] value.t = "str" -> Str(ToString(target.n) \o value.s)
    [] OTHER           -> target

----------------------------------------------------------------------------
(* Schema constants and defaults *)

SCHEMA_VERSION == 3

DefaultStack == "Node.js + npm + Vite + TypeScript + TanStack"

DEFAULT_ESSENTIAL ==
  Obj([lastSession |-> Str("Unknown"), stack |-> Str(DefaultStack),
       projects |-> Arr(<<>>), sessionCount |-> Num(0)])

createDefaultMetadata(now) ==
  Obj([version |-> Num(SCHEMA_VERSION), lastUpdated |-> Str(now),
       essential |-> DEFAULT_ESSENTIAL])

\* Wall-clock readings new Date().toISOString() gives during a run; they differ from
\* every timestamp the input documents carry
Times == {"2026-01-18T10:00:00Z"}

----------------------------------------------------------------------------
(* Delta applier *)

\* field.split('.') for the field strings the model uses
Split(field) ==
  CASE field = "essential.lastSession"          -> <<"essential", "lastSession">>
    [] field = "essential.stack"                -> <<"essential", "stack">>
    [] field = "essential.projects"             -> <<"essential", "projects">>
    [] field = "essential.sessionCount"         -> <<"essential", "sessionCount">>
    [] field = "essential.essential"            -> <<"essential", "essential">>
    [] field = "root.essential.lastSession"     -> <<"root", "essential", "lastSession">>
    [] field = "root.essential.projects"        -> <<"root", "essential", "projects">>
    [] field = "root.essential.sessionCount"    -> <<"root", "essential", "sessionCount">>
    [] field = "metadata.essential.lastSession" -> <<"metadata", "essential", "lastSession">>
    [] field = "root.extra.note"                -> <<"root", "extra", "note">>
    [] field = "sessionHistory"                 -> <<"sessionHistory">>
    [] field = "lastSession"                    -> <<"lastSession">>
    [] field = "root.lastSession"               -> <<"root", "lastSession">>

\* the switch with add behaving as set whatever the target holds
MutateAssign(target, lastKey, delta) ==
  CASE delta.op \in {"set", "add"} -> Put(target, lastKey, delta.value)
    [] delta.op = "remove"         -> Del(target, lastKey)
    [] OTHER                       -> target

\* the switch on delta.op, applied to target[lastKey]
Mutate(target, lastKey, delta) ==
  LET cur == Get(target, lastKey) IN
  CASE delta.op = "set"    -> Put(target, lastKey, delta.value)
    [] delta.op = "add"    ->
         IF cur.t = "arr" THEN Put(target, lastKey, Arr(Append(cur.a, delta.value)))
         ELSE IF cur.t = "num" THEN Put(target, lastKey, PlusAssign(cur, delta.value))
         ELSE Put(target, lastKey, delta.value)
    [] delta.op = "remove" -> Del(target, lastKey)
    [] OTHER               -> target

\* the navigation loop for (i = 1; i < path.length - 1; i++), here 1-based: segments
\* 2 .. Len(path)-1 descend (creating {} where the child is falsy or no object),
\* the last segment is the key that is mutated
RECURSIVE Navigate(_, _, _, _)
Navigate(target, path, i, delta) ==
  IF i > Len(path) - 1
  THEN Mutate(target, path[Len(path)], delta)
  ELSE LET child == Get(target, path[i])
           next  == IF ~Truthy(child) \/ ~TypeofObject(child) THEN EmptyObj ELSE child
       IN Put(target, path[i], Navigate(next, path, i + 1, delta))

\* the navigation starting at the first segment, which then is a key like the others
applySingleDeltaFromRoot(base, delta, now) ==
  LET b == IF ~Truthy(base) \/ ~TypeofObject(base) THEN createDefaultMetadata(now) ELSE base
  IN Navigate(b, Split(delta.field), 1, delta)

applySingleDelta(base, delta, now) ==
  LET b == IF ~Truthy(base) \/ ~TypeofObject(base) THEN createDefaultMetadata(now) ELSE base
  IN Navigate(b, Split(delta.field), 2, delta)

----------------------------------------------------------------------------
(* Schema validator and repair *)

\* the checks with typeof alone: a version 0 and an empty lastUpdated are accepted
validationErrorsByType(data) ==
  LET e == Get(data, "essential") IN
    (IF ~TypeofObject(data) THEN {"Metadata is not an object"} ELSE {})
    \cup (IF Get(data, "version").t # "num"
          THEN {"Missing or invalid version"} ELSE {})
    \cup (IF Get(data, "lastUpdated").t # "str"
          THEN {"Missing or invalid lastUpdated"} ELSE {})
    \cup (IF ~Truthy(e) \/ ~TypeofObject(e)
          THEN {"Missing or invalid essential section"}
          ELSE (IF ~Truthy(Get(e, "lastSession")) \/ Get(e, "lastSession").t # "str"
                THEN {"Missing or invalid essential.lastSession"} ELSE {})
               \cup (IF ~Truthy(Get(e, "stack")) \/ Get(e, "stack").t # "str"
                     THEN {"Missing or invalid essential.stack"} ELSE {})
               \cup (IF Get(e, "projects").t # "arr"
                     THEN {"Missing or invalid essential.projects"} ELSE {}))

\* the errors validateMetadata collects for a present candidate
validationErrors(data) ==
  LET e == Get(data, "essential") IN
    (IF ~TypeofObject(data) THEN {"Metadata is not an object"} ELSE {})
    \cup (IF ~Truthy(Get(data, "version")) \/ Get(data, "version").t # "num"
          THEN {"Missing or invalid version"} ELSE {})
    \cup (IF ~Truthy(Get(data, "lastUpdated")) \/ Get(data, "lastUpdated").t # "str"
          THEN {"Missing or invalid lastUpdated"} ELSE {})
    \cup (IF ~Truthy(e) \/ ~TypeofObject(e)
          THEN {"Missing or invalid essential section"}
          ELSE (IF ~Truthy(Get(e, "lastSession")) \/ Get(e, "lastSession").t # "str"
                THEN {"Missing or invalid essential.lastSession"} ELSE {})
               \cup (IF ~Truthy(Get(e, "stack")) \/ Get(e, "stack").t # "str"
                     THEN {"Missing or invalid essential.stack"} ELSE {})
               \cup (IF Get(e, "projects").t # "arr"
                     THEN {"Missing or invalid essential.projects"} ELSE {}))

repairMetadata(corruptedData, now) ==
  LET c  == corruptedData
      ok == Truthy(c) /\ TypeofObject(c)
      ce == Get(c, "essential")
      eo == ok /\ Truthy(ce) /\ TypeofObject(ce)
      essential ==
        Obj([lastSession  |-> IF eo /\ Truthy(Get(ce, "lastSession"))
                              THEN Get(ce, "lastSession") ELSE Str("Unknown"),
             stack        |-> IF eo /\ Truthy(Get(ce, "stack"))
                              THEN Get(ce, "stack") ELSE Str(DefaultStack),
             projects     |-> IF eo /\ Get(ce, "projects").t = "arr"
                              THEN Get(ce, "projects") ELSE Arr(<<>>),
             sessionCount |-> IF eo /\ Get(ce, "sessionCount").t = "num"
                              THEN Get(ce, "sessionCount") ELSE Num(0)])
      repaired ==
        Obj([version     |-> IF ok /\ Truthy(Get(c, "version"))
                             THEN Get(c, "version") ELSE Num(SCHEMA_VERSION),
             lastUpdated |-> IF ok /\ Truthy(Get(c, "lastUpdated"))
                             THEN Get(c, "lastUpdated") ELSE Str(now),
             essential   |-> essential])
  IN IF ok /\ Get(c, "sessionHistory").t = "arr"
     THEN Put(repaired, "sessionHistory", Arr(SliceLast(Get(c, "sessionHistory").a, 10)))
     ELSE repaired

validateMetadata(data, now) ==
  IF ~Truthy(data) THEN createDefaultMetadata(now)
  ELSE IF validationErrors(data) # {} THEN repairMetadata(data, now)
  ELSE data

----------------------------------------------------------------------------
(* Files *)

Absent == [st |-> "absent"]

\* a file whose bytes do not parse (bad gzip stream or bad JSON)
Corrupt == [st |-> "corrupt"]

Json(v) == [st |-> "json", v |-> v]

NoJournal == [exists |-> FALSE, lines |-> <<>>]

JournalOf(lines) == [exists |-> TRUE, lines |-> lines]

\* one line of context-deltas.jsonl: JSON.stringify(delta), or bytes JSON.parse rejects.
\* The timestamp member of a delta is written but never read, and is left out.
DeltaLine(op, field, value) == [kind |-> "delta", op |-> op, field |-> field, value |-> value]

GarbageLine == [kind |-> "garbage"]

HasGarbage(lines) == \E i \in 1..Len(lines) : lines[i].kind = "garbage"

loadMetadata(pl, gzf) ==
  IF gzf.st = "json" THEN gzf.v
  ELSE IF gzf.st = "corrupt" THEN Null
  ELSE IF pl.st = "json" THEN pl.v
  ELSE Null

\* a fold that takes the lines from the end of the journal backwards
RECURSIVE FoldBackwards(_, _, _, _)
FoldBackwards(result, lines, i, now) ==
  IF i > Len(lines) THEN [ok |-> TRUE, v |-> result]
  ELSE IF lines[Len(lines) + 1 - i].kind = "garbage" THEN [ok |-> FALSE, v |-> result]
  ELSE FoldBackwards(applySingleDelta(result, lines[Len(lines) + 1 - i], now), lines, i + 1, now)

\* the for-loop of applyDeltasToMetadata over lines[i..]: the fold result, or
\* ok = FALSE as soon as JSON.parse throws.  FoldStep hands the document that
\* applySingleDelta returned (always an object) to the next iteration.
RECURSIVE FoldLines(_, _, _, _), FoldStep(_, _, _, _)
FoldLines(result, lines, i, now) ==
  IF i > Len(lines) THEN [ok |-> TRUE, v |-> result]
  ELSE IF lines[i].kind = "garbage" THEN [ok |-> FALSE, v |-> result]
  ELSE FoldStep(applySingleDelta(result, lines[i], now), lines, i, now)

FoldStep(applied, lines, i, now) ==
  IF applied.t = "obj" THEN FoldLines(applied, lines, i + 1, now)
  ELSE [ok |-> FALSE, v |-> applied]

\* JSON.parse(JSON.stringify(v)): an object loses its undefined properties, an
\* undefined array element comes back as null
RECURSIVE JsonCopy(_)
JsonCopy(v) ==
  CASE v.t = "obj" -> Obj([k \in {j \in DOMAIN v.o : v.o[j].t # "undef"} |-> JsonCopy(v.o[k])])
    [] v.t = "arr" -> Arr([i \in DOMAIN v.a |->
                             IF v.a[i].t = "undef" THEN Null ELSE JsonCopy(v.a[i])])
    [] OTHER       -> v

\* the fold working on the caller's own object, with no copy taken
ShareForFold(baseMetadata) == [v |-> baseMetadata, shared |-> TRUE]

\* JSON.parse(JSON.stringify(baseMetadata)): an equal document that shares nothing
\* with the caller's object, so the fold's in-place writes do not reach the caller
CopyForFold(baseMetadata) == [v |-> JsonCopy(baseMetadata), shared |-> FALSE]

\* the end of applyDeltasToMetadata, given the copy c and the fold f: what it returns
\* (ret), what it logs (log) and the caller's object afterwards (baseAfter).
\* applySingleDelta writes into the object it is given; the catch returns the
\* caller's object itself.
FoldOutcome(baseMetadata, c, f) ==
  LET after == IF c.shared /\ Truthy(baseMetadata) /\ TypeofObject(baseMetadata)
               THEN f.v ELSE baseMetadata
  IN IF f.ok THEN [ret |-> f.v, log |-> {"Applied deltas"}, baseAfter |-> after]
     ELSE [ret |-> after, log |-> {"Error applying deltas"}, baseAfter |-> after]

\* lines 329-339 of applyDeltasToMetadata: copy the base (or take the default), fold
FoldCopy(baseMetadata, c, jr, now) ==
  FoldOutcome(baseMetadata, c,
              FoldLines(IF Truthy(baseMetadata) THEN c.v ELSE createDefaultMetadata(now),
                        jr.lines, 1, now))

applyDeltasToMetadata(baseMetadata, jr, now) ==
  IF ~jr.exists THEN [ret |-> baseMetadata, log |-> {}, baseAfter |-> baseMetadata]
  ELSE IF jr.lines = <<>> THEN [ret |-> baseMetadata, log |-> {}, baseAfter |-> baseMetadata]
  ELSE FoldCopy(baseMetadata, CopyForFold(baseMetadata), jr, now)

\* (sessionCount || 0) + 1
Increment(v) ==
  CASE ~Truthy(v)    -> Num(1)
    [] v.t = "num"   -> Num(v.n + 1)
    [] v.t = "str"   -> Str(v.s \o "1")
    [] OTHER         -> Str("[object Object]1")

\* a failed step with no catch around it: nothing is logged and the error leaves the
\* method
Rethrown(message) == [threw |-> TRUE, log |-> {}]

\* a try { ... } catch (error) { console.log(message) } around a failed step: the
\* error is logged and the method returns normally
Caught(message) == [threw |-> FALSE, log |-> {message}]

\* lines 425-429 of compactDeltas: stamp lastUpdated, count the compaction as a session
Finalize(m, now) ==
  IF Truthy(Get(m, "essential"))
  THEN Put(Put(m, "lastUpdated", Str(now)), "essential",
           Put(Get(m, "essential"), "sessionCount",
               Increment(Get(Get(m, "essential"), "sessionCount"))))
  ELSE Put(m, "lastUpdated", Str(now))

\* the catch of compactDeltas, with the files as they are when it is reached
CompactCaught(pl, jr, wrote, io, log, c) ==
  [plain |-> pl, journal |-> jr, wrote |-> wrote, io |-> io, log |-> log \cup c.log,
   threw |-> c.threw]

\* the two file operations in the other order: the journal is removed first, so a
\* failed snapshot write loses it
TruncateThenPersist(pl, jr, final, writeFails, unlinkFails) ==
  IF ~jr.exists \/ unlinkFails
  THEN [plain |-> pl, journal |-> jr, wrote |-> FALSE, io |-> {"unlink"},
        log |-> {"Error compacting deltas"}, threw |-> FALSE]
  ELSE IF writeFails
  THEN [plain |-> pl, journal |-> NoJournal, wrote |-> FALSE, io |-> {"write"},
        log |-> {"Error compacting deltas"}, threw |-> FALSE]
  ELSE [plain |-> Json(final), journal |-> NoJournal, wrote |-> TRUE, io |-> {},
        log |-> {"Deltas compacted"}, threw |-> FALSE]

\* lines 431-437 of compactDeltas: write the snapshot, then remove the journal.
\* io names the file operations that failed; unlinkSync of a missing file fails too.
PersistAndTruncate(pl, jr, final, writeFails, unlinkFails) ==
  IF writeFails
  THEN CompactCaught(pl, jr, FALSE, {"write"}, {}, Caught("Error compacting deltas"))
  ELSE IF ~jr.exists \/ unlinkFails
  THEN CompactCaught(Json(final), jr, TRUE, {"unlink"}, {}, Caught("Error compacting deltas"))
  ELSE [plain |-> Json(final), journal |-> NoJournal, wrote |-> TRUE, io |-> {},
        log |-> {"Deltas compacted"}, threw |-> FALSE]

\* the log lines of the fold come before those of the rest of compactDeltas
WithLog(log, r) == [r EXCEPT !.log = log \cup r.log]

\* lines 425-437 of compactDeltas, given what applyDeltasToMetadata returned (ad):
\* a property write on a non-object throws into the catch before anything is written
CompactFolded(pl, jr, ad, now, writeFails, unlinkFails) ==
  IF ad.ret.t # "obj"
  THEN CompactCaught(pl, jr, FALSE, {}, ad.log, Caught("Error compacting deltas"))
  ELSE IF Truthy(Get(ad.ret, "essential")) /\ Get(ad.ret, "essential").t # "obj"
  THEN CompactCaught(pl, jr, FALSE, {}, ad.log, Caught("Error compacting deltas"))
  ELSE WithLog(ad.log,
               PersistAndTruncate(pl, jr, Finalize(ad.ret, now), writeFails, unlinkFails))

\* lines 416-420 of compactDeltas: the parsed plain snapshot, or the default document
CompactionStart(pl, now) == IF pl.st = "json" THEN pl.v ELSE createDefaultMetadata(now)

\* compactDeltas on the files (pl, jr): the files afterwards, the log lines, whether the
\* snapshot was written, the failed file operations and whether the call threw.
\* Only the plain snapshot file is read and written.
compactDeltas(pl, jr, now, writeFails, unlinkFails) ==
  IF pl.st = "corrupt"
  THEN CompactCaught(pl, jr, FALSE, {}, {}, Caught("Error compacting deltas"))
  ELSE CompactFolded(pl, jr,
                     applyDeltasToMetadata(IF pl.st = "json" THEN pl.v
                                           ELSE createDefaultMetadata(now), jr, now),
                     now, writeFails, unlinkFails)

COMPACT_THRESHOLD == 50

\* the test as the comment above it words it ("more than 50 deltas")
ShouldCompactAbove(lineCount) == lineCount > COMPACT_THRESHOLD

\* the test of checkAndCompactDeltas on the number of journal lines
ShouldCompact(lineCount) == lineCount >= COMPACT_THRESHOLD

\* what checkAndCompactDeltas leaves when it called compactDeltas, which gave c; its
\* own catch ignores whatever compactDeltas throws
CompactRan(c) ==
  [plain |-> c.plain, journal |-> c.journal, wrote |-> c.wrote, io |-> c.io,
   log |-> c.log \cup {"Compacting deltas"}, ran |-> TRUE]

\* checkAndCompactDeltas on the files (pl, jr); ran = compactDeltas was called
checkAndCompactDeltas(pl, jr, now, writeFails, unlinkFails) ==
  IF ~jr.exists \/ jr.lines = <<>> \/ ~ShouldCompact(Len(jr.lines))
  THEN [plain |-> pl, journal |-> jr, wrote |-> FALSE, io |-> {}, log |-> {}, ran |-> FALSE]
  ELSE CompactRan(compactDeltas(pl, jr, now, writeFails, unlinkFails))

\* an update that also rewrites a field of the plain snapshot file in place
DeltaSavedInPlace(c) ==
  [plain |-> Json(Put(IF c.plain.st = "json" THEN c.plain.v ELSE EmptyObj,
                      "lastUpdated", Str("in place"))),
   journal |-> c.journal, wrote |-> c.wrote, ran |-> c.ran,
   io |-> c.io, log |-> c.log \cup {"Delta saved"}, threw |-> FALSE]

\* what saveDelta leaves after a successful append, checkAndCompactDeltas having given c
DeltaSaved(c) ==
  [plain |-> c.plain, journal |-> c.journal, wrote |-> c.wrote, ran |-> c.ran,
   io |-> c.io, log |-> c.log \cup {"Delta saved"}, threw |-> FALSE]

\* the catch of saveDelta
DeltaNotSaved(pl, jr, c) ==
  [plain |-> pl, journal |-> jr, wrote |-> FALSE, ran |-> FALSE, io |-> {"append"},
   log |-> c.log, threw |-> c.threw]

\* the new line written in front of the journal instead of after it
saveDeltaInFront(pl, jr, line, now, appendFails, writeFails, unlinkFails) ==
  IF appendFails
  THEN DeltaNotSaved(pl, jr, Caught("Could not save delta"))
  ELSE DeltaSaved(checkAndCompactDeltas(pl, JournalOf(<<line>> \o jr.lines), now,
                                        writeFails, unlinkFails))

\* saveDelta on the files (pl, jr)
saveDelta(pl, jr, line, now, appendFails, writeFails, unlinkFails) ==
  IF appendFails
  THEN DeltaNotSaved(pl, jr, Caught("Could not save delta"))
  ELSE DeltaSaved(checkAndCompactDeltas(pl, JournalOf(Append(jr.lines, line)), now,
                                        writeFails, unlinkFails))

\* the catch of saveMetadata, with the files as they are when it is reached
MetadataNotSaved(pl, gzf, c) ==
  [plain |-> pl, gz |-> gzf, io |-> {"write"}, log |-> c.log, threw |-> c.threw]

\* saveMetadata: the compressed file is written first, then the plain one
saveMetadata(pl, gzf, m, gzFails, plainFails) ==
  IF gzFails THEN MetadataNotSaved(pl, gzf, Caught("Could not save metadata"))
  ELSE IF plainFails THEN MetadataNotSaved(pl, Json(m), Caught("Could not save metadata"))
  ELSE [plain |-> Json(m), gz |-> Json(m), io |-> {}, log |-> {"Metadata saved"},
        threw |-> FALSE]

\* createNewUserSession(), abridged to its title
NewUserSession == Obj([title |-> Str("NEW SESSION")])

\* checkForContextFiles: context-metadata.json or SESSION_CONTEXT_COMPLETE.md is
\* accessible (the compressed snapshot is not on its list; QUICK_REFERENCE.md and
\* SESSION_CONTEXT_COMPLETE.json.gz are absent in the model)
checkForContextFiles(pl, mdExists) == mdExists \/ pl.st # "absent"

\* lines 55 and 69 of initialize: the validated document is kept and returned
Validated(v, log) == [ret |-> v, metadata |-> v, log |-> log]

\* lines 53-69 of initialize, given what applyDeltasToMetadata returned (ad)
InitializeFolded(ad, now) == Validated(validateMetadata(ad.ret, now), ad.log)

\* initialize: what it returns, what it leaves in this.metadata (mem before), what it logs
initialize(pl, gzf, jr, mdExists, mem, now) ==
  IF ~checkForContextFiles(pl, mdExists)
  THEN [ret |-> NewUserSession, metadata |-> mem, log |-> {"No previous context found"}]
  ELSE InitializeFolded(applyDeltasToMetadata(loadMetadata(pl, gzf), jr, now), now)

----------------------------------------------------------------------------
(* Inputs *)

\* a well-formed snapshot, as the loader's tests write it
ValidSnapshot ==
  Obj([version |-> Num(3), lastUpdated |-> Str("2026-01-17T09:00:00Z"),
       essential |-> Obj([lastSession |-> Str("2026-01-17"), stack |-> Str("Node.js + npm"),
                          projects |-> Arr(<<Str("iron-tracker")>>),
                          sessionCount |-> Num(5)])])

\* an older well-formed snapshot (a compressed copy made before later writes)
OlderSnapshot ==
  Obj([version |-> Num(2), lastUpdated |-> Str("2026-01-15T10:00:00Z"),
       essential |-> Obj([lastSession |-> Str("2026-01-15"), stack |-> Str("Custom Stack"),
                          projects |-> Arr(<<Str("custom-project")>>),
                          sessionCount |-> Num(10)])])

\* the corrupted document of the test 'should repair corrupted context'
BrokenSnapshot == Obj([version |-> Str("invalid"), essential |-> EmptyObj])

InitPlain == {Absent, Corrupt, Json(ValidSnapshot), Json(BrokenSnapshot)}

\* the documents saveMetadata is called with
SaveInputs == {ValidSnapshot}

InitGz == {Absent, Corrupt, Json(OlderSnapshot)}

\* the snapshot files and the markdown context file a run starts with: every plain
\* file alone, the markdown file alone, and a compressed copy next to a well-formed
\* or missing plain file
InitFiles ==
  {[plain |-> p, gz |-> Absent, md |-> FALSE] : p \in InitPlain}
  \cup {[plain |-> Absent, gz |-> Absent, md |-> TRUE]}
  \cup {[plain |-> p, gz |-> g, md |-> FALSE] :
          p \in {Absent, Json(ValidSnapshot)}, g \in InitGz \ {Absent}}

\* the deltas the update operations append
Deltas ==
  { DeltaLine("set", "essential.lastSession", Str("2026-01-18")),
    DeltaLine("add", "root.essential.projects", Str("toku-tracker")),
    DeltaLine("remove", "essential.essential", Null) }

InitJournals ==
  { NoJournal, JournalOf(<<>>), JournalOf(<<GarbageLine>>),
    JournalOf(<<DeltaLine("set", "root.essential.lastSession", Str("2026-01-18")),
                GarbageLine>>) }

\* what extractMetadataFromMarkdown yields for the markdown document of the tests
ExtractedFromMarkdown(now) ==
  Obj([version |-> Num(SCHEMA_VERSION), lastUpdated |-> Str(now),
       essential |-> Obj([lastSession |-> Str("2026-01-17"),
                          stack |-> Str("Node.js + npm + Vite + TypeScript"),
                          projects |-> Arr(<<Str("iron-tracker"), Str("toku-tracker")>>),
                          sessionCount |-> Num(0)])])

\* bounds of the exploration
MaxJournal == 2

MaxWrites == 2

----------------------------------------------------------------------------
(* The loader on its files.  Each step is one run of the command-line entry point  *)
(* or one call on a new OpenCodeAutoLoader: this.metadata starts as null.          *)

Idle == [op |-> "none", ret |-> Undef, log |-> {}, io |-> {}, threw |-> FALSE,
         compacted |-> FALSE, wrote |-> FALSE]

NoCall == [fn |-> "none"]

Init ==
  /\ history = [st |-> "absent"]
  /\ OthersIdle
  /\ \E f \in InitFiles : plain = f.plain /\ gz = f.gz /\ md = f.md
  /\ journal \in InitJournals
  /\ metadata = Null
  /\ writes = 0
  /\ last = Idle
  /\ call = NoCall

\* the step of a saveDelta call that gave r
SaveDeltaReturns(r) ==
  /\ plain' = r.plain
  /\ journal' = r.journal
  /\ writes' = IF r.ran THEN writes + 1 ELSE writes
  /\ last' = [op |-> "saveDelta", ret |-> Undef, log |-> r.log, io |-> r.io,
              threw |-> r.threw, compacted |-> r.ran, wrote |-> r.wrote]
  /\ metadata' = Null
  /\ UNCHANGED <<gz, md, call>>
  /\ UNCHANGED <<history, others>>

SaveDelta(line, now, appendFails, writeFails, unlinkFails) ==
  SaveDeltaReturns(saveDelta(plain, journal, line, now, appendFails, writeFails, unlinkFails))

\* the step of a compactDeltas call that gave r
CompactDeltasReturns(r) ==
  /\ writes < MaxWrites
  /\ plain' = r.plain
  /\ journal' = r.journal
  /\ writes' = writes + 1
  /\ last' = [op |-> "compactDeltas", ret |-> Undef, log |-> r.log, io |-> r.io,
              threw |-> r.threw, compacted |-> TRUE, wrote |-> r.wrote]
  /\ metadata' = Null
  /\ UNCHANGED <<gz, md, call>>
  /\ UNCHANGED <<history, others>>

CompactDeltas(now, writeFails, unlinkFails) ==
  CompactDeltasReturns(compactDeltas(plain, journal, now, writeFails, unlinkFails))

\* the step of an initialize call that gave r
InitializeReturns(r) ==
  /\ metadata' = r.metadata
  /\ last' = [op |-> "initialize", ret |-> r.ret, log |-> r.log, io |-> {},
              threw |-> FALSE, compacted |-> FALSE, wrote |-> FALSE]
  /\ UNCHANGED <<plain, gz, journal, md, writes, call>>
  /\ UNCHANGED <<history, others>>

Initialize(now) == InitializeReturns(initialize(plain, gz, journal, md, Null, now))

\* repairContext: parse the plain file, repair, write it back
RepairContext(now, writeFails) ==
  LET c == Caught("Could not repair context")
      repaired == repairMetadata(plain.v, now)
  IN
  /\ plain.st # "absent"
  /\ writes < MaxWrites
  /\ writes' = writes + 1
  /\ IF plain.st = "corrupt"
     THEN /\ plain' = plain
          /\ last' = [Idle EXCEPT !.op = "repairContext", !.log = c.log, !.threw = c.threw]
     ELSE IF writeFails
     THEN /\ plain' = plain
          /\ last' = [Idle EXCEPT !.op = "repairContext", !.log = c.log, !.threw = c.threw,
                                  !.io = {"write"}]
     ELSE /\ plain' = Json(repaired)
          /\ last' = [Idle EXCEPT !.op = "repairContext", !.log = {"Context repaired"},
                                  !.wrote = TRUE]
  /\ metadata' = Null
  /\ UNCHANGED <<gz, journal, md, call>>
  /\ UNCHANGED <<history, others>>

\* migrateFromMarkdown: loadSessionContext fills this.metadata when it is empty, then
\* this.metadata is written to the plain file (no try/catch around the write)
MigrateFromMarkdown(now, writeFails) ==
  LET m == IF md THEN validateMetadata(ExtractedFromMarkdown(now), now)
           ELSE createDefaultMetadata(now)
  IN
  /\ writes < MaxWrites
  /\ writes' = writes + 1
  /\ metadata' = m
  /\ plain' = IF writeFails THEN plain ELSE Json(m)
  /\ last' = [Idle EXCEPT !.op = "migrateFromMarkdown", !.threw = writeFails,
                          !.io = IF writeFails THEN {"write"} ELSE {},
                          !.wrote = ~writeFails]
  /\ UNCHANGED <<gz, journal, md, call>>
  /\ UNCHANGED <<history, others>>

\* the step of a saveMetadata call that gave r
SaveMetadataReturns(r) ==
  /\ writes < MaxWrites
  /\ writes' = writes + 1
  /\ plain' = r.plain
  /\ gz' = r.gz
  /\ last' = [Idle EXCEPT !.op = "saveMetadata", !.log = r.log, !.io = r.io,
                          !.threw = r.threw, !.wrote = (r.io = {})]
  /\ metadata' = Null
  /\ UNCHANGED <<journal, md, call>>
  /\ UNCHANGED <<history, others>>

\* saveMetadata(m)
SaveMetadata(m, gzFails, plainFails) ==
  SaveMetadataReturns(saveMetadata(plain, gz, m, gzFails, plainFails))

Next ==
  \/ \E line \in Deltas, now \in Times, af \in BOOLEAN :
       /\ Len(journal.lines) < MaxJournal
       /\ SaveDelta(line, now, af, FALSE, FALSE)
  \/ \E now \in Times, wf \in BOOLEAN, uf \in BOOLEAN : CompactDeltas(now, wf, uf)
  \/ \E now \in Times : Initialize(now)
  \/ \E now \in Times, wf \in BOOLEAN : RepairContext(now, wf)
  \/ \E now \in Times, wf \in BOOLEAN : MigrateFromMarkdown(now, wf)
  \/ \E m \in SaveInputs, gf \in BOOLEAN, pf \in BOOLEAN : SaveMetadata(m, gf, pf)

Spec == Init /\ [][Next]_vars

----------------------------------------------------------------------------
(* Threshold run: updates appended one after another to an empty journal *)

\* the delta every update of the run appends
FillerDelta == DeltaLine("set", "essential.lastSession", Str("2026-01-18"))

\* the longest journal of the run: past the threshold, so that a failed compaction
\* is followed by further updates
MaxBurst == 52

InitThreshold ==
  /\ history = [st |-> "absent"]
  /\ OthersIdle
  /\ plain \in {Absent, Corrupt, Json(ValidSnapshot)}
  /\ gz = Absent
  /\ journal \in {NoJournal, JournalOf(<<>>)}
  /\ md = FALSE
  /\ metadata = Null
  /\ writes = 0
  /\ last = Idle
  /\ call = NoCall

NextThreshold ==
  \E now \in Times, af \in BOOLEAN, wf \in BOOLEAN, uf \in BOOLEAN :
    /\ Len(journal.lines) < MaxBurst
    /\ writes < MaxWrites
    /\ SaveDelta(FillerDelta, now, af, wf, uf)

SpecThreshold == InitThreshold /\ [][NextThreshold]_vars

----------------------------------------------------------------------------
(* Direct calls of applyDeltasToMetadata(base) on a journal file *)

\* the base document of the test 'should apply deltas to metadata'
TestBase ==
  Obj([version |-> Num(3), lastUpdated |-> Str("2026-01-17T09:00:00Z"),
       essential |-> Obj([lastSession |-> Str("old"), stack |-> Str("test"),
                          projects |-> Arr(<<>>), sessionCount |-> Num(0)])])

FoldBases == {Null, TestBase, ValidSnapshot, BrokenSnapshot, Num(5)}

MaxFoldLen == 3

FoldJournals ==
  {NoJournal} \cup
  {JournalOf(l) : l \in UNION {[1..n -> Deltas \cup {GarbageLine}] : n \in 0..MaxFoldLen}}

InitFold ==
  /\ history = [st |-> "absent"]
  /\ OthersIdle
  /\ plain = Absent
  /\ gz = Absent
  /\ journal \in FoldJournals
  /\ md = FALSE
  /\ metadata = Null
  /\ writes = 0
  /\ last = Idle
  /\ call \in {[fn |-> "applyDeltasToMetadata", st |-> "pending", base |-> b,
                ret |-> Undef, log |-> {}, baseAfter |-> b] : b \in FoldBases}

\* the step of a direct applyDeltasToMetadata call that gave r
ApplyDeltasReturns(r) ==
  /\ call.fn = "applyDeltasToMetadata"
  /\ call.st = "pending"
  /\ call' = [call EXCEPT !.st = "done", !.ret = r.ret, !.log = r.log,
                          !.baseAfter = r.baseAfter]
  /\ UNCHANGED <<plain, gz, journal, md, metadata, writes, last>>
  /\ UNCHANGED <<history, others>>

ApplyDeltasToMetadata(now) == ApplyDeltasReturns(applyDeltasToMetadata(call.base, journal, now))

NextFold == \E now \in Times : ApplyDeltasToMetadata(now)

SpecFold == InitFold /\ [][NextFold]_vars

----------------------------------------------------------------------------
(* Direct calls of applySingleDelta(base, delta) *)

\* the base documents of the tests 'should apply single delta correctly' and
\* 'should apply add delta to arrays'
TestBaseSet == Obj([essential |-> Obj([lastSession |-> Str("old"), stack |-> Str("test")])])

TestBaseAdd == Obj([essential |-> Obj([projects |-> Arr(<<Str("iron-tracker")>>)])])

ApplyBases == {Null, Num(5), EmptyObj, TestBaseSet, TestBaseAdd, TestBase, ValidSnapshot}

ApplyOps == {"set", "add", "remove", "merge"}

ApplyFields ==
  {"essential.lastSession", "essential.projects", "root.essential.lastSession",
   "root.essential.projects", "root.essential.sessionCount", "metadata.essential.lastSession",
   "root.extra.note", "lastSession", "root.lastSession", "sessionHistory"}

ApplyValues == {Str("new"), Str("toku-tracker"), Num(2)}

ApplyDeltas == {DeltaLine(op, f, v) : op \in ApplyOps, f \in ApplyFields, v \in ApplyValues}

InitApply ==
  /\ history = [st |-> "absent"]
  /\ OthersIdle
  /\ plain = Absent
  /\ gz = Absent
  /\ journal = NoJournal
  /\ md = FALSE
  /\ metadata = Null
  /\ writes = 0
  /\ last = Idle
  /\ call \in {[fn |-> "applySingleDelta", st |-> "pending", base |-> b, delta |-> d,
                ret |-> Undef] : b \in ApplyBases, d \in ApplyDeltas}

ApplySingleDelta(now) ==
  /\ call.fn = "applySingleDelta"
  /\ call.st = "pending"
  /\ call' = [call EXCEPT !.st = "done", !.ret = applySingleDelta(call.base, call.delta, now)]
  /\ UNCHANGED <<plain, gz, journal, md, metadata, writes, last>>
  /\ UNCHANGED <<history, others>>

NextApply == \E now \in Times : ApplySingleDelta(now)

SpecApply == InitApply /\ [][NextApply]_vars

----------------------------------------------------------------------------
(* Direct calls of repairMetadata(data), validateMetadata(data) and loadMetadata() *)

\* values a candidate document carries in version: missing, the current and an older
\* schema number, zero, and the string of the test 'should repair corrupted metadata'
CandidateVersions == {Undef, Num(SCHEMA_VERSION), Num(2), Num(0), Str("invalid")}

CandidateStamps == {Undef, Null, Str(""), Str("2026-01-15T10:00:00Z")}

\* length of the session history of a candidate: more than the ten entries repair keeps
HistoryLen == 12

CandidateHistories == {Undef, Str("none"), Arr([i \in 1..HistoryLen |-> Num(i)])}

\* essential sections: missing, not an object, an array, and objects whose members are
\* missing, well-typed or ill-typed independently of one another
CandidateEssentials ==
  {Undef, Str("garbage"), Arr(<<>>)} \cup
  {JsonCopy(Obj([lastSession |-> ls, stack |-> st, projects |-> pr, sessionCount |-> sc])) :
     ls \in {Undef, Str(""), Str("2026-01-15"), Num(5)},
     st \in {Undef, Str("Custom Stack"), Num(1)},
     pr \in {Undef, Arr(<<Str("custom-project")>>), Str("custom-project")},
     sc \in {Undef, Num(10), Str("10")}}

\* the candidates: no document, primitives, an array, and objects built member by member
\* (a missing member is no property at all)
Candidates ==
  {Undef, Null, Num(0), Num(5), Str(""), Str("garbage"), Arr(<<>>)} \cup
  {JsonCopy(Obj([version |-> v, lastUpdated |-> lu, essential |-> e, sessionHistory |-> h])) :
     v \in CandidateVersions, lu \in CandidateStamps, e \in CandidateEssentials,
     h \in CandidateHistories}

InitValidate ==
  /\ history = [st |-> "absent"]
  /\ OthersIdle
  /\ journal = NoJournal
  /\ md = FALSE
  /\ metadata = Null
  /\ writes = 0
  /\ last = Idle
  /\ \/ /\ plain = Absent
        /\ gz = Absent
        /\ call \in {[fn |-> f, st |-> "pending", data |-> d, ret |-> Undef] :
                       f \in {"repairMetadata", "validateMetadata"}, d \in Candidates}
     \/ /\ plain \in InitPlain
        /\ gz \in InitGz
        /\ call = [fn |-> "loadMetadata", st |-> "pending", data |-> Null, ret |-> Undef]

\* the step of a direct call that returned ret
CallReturns(fn, ret) ==
  /\ call.fn = fn
  /\ call.st = "pending"
  /\ call' = [call EXCEPT !.st = "done", !.ret = ret]
  /\ UNCHANGED <<plain, gz, journal, md, metadata, writes, last>>
  /\ UNCHANGED <<history, others>>

RepairMetadata(now) == CallReturns("repairMetadata", repairMetadata(call.data, now))

ValidateMetadata(now) == CallReturns("validateMetadata", validateMetadata(call.data, now))

LoadMetadata == CallReturns("loadMetadata", loadMetadata(plain, gz))

NextValidate ==
  \/ \E now \in Times : RepairMetadata(now)
  \/ \E now \in Times : ValidateMetadata(now)
  \/ LoadMetadata

SpecValidate == InitValidate /\ [][NextValidate]_vars

----------------------------------------------------------------------------
(* Session history: addToHistory on session-history.json and the journal *)

\* the number of sessions addToHistory keeps
HISTORY_LIMIT == 10

\* a history entry, abridged to the tick of its timestamp and its summary
HistoryEntry(tick) == Obj([timestamp |-> Num(tick), summary |-> Str("Test session")])

\* history.push(entry) with no cut afterwards
PushUncapped(h, entry) == Append(h, entry)

\* history.push(entry); if (history.length > 10) history = history.slice(-10)
PushCapped(h, entry) ==
  IF Len(Append(h, entry)) > HISTORY_LIMIT
  THEN SliceLast(Append(h, entry), HISTORY_LIMIT)
  ELSE Append(h, entry)

\* the history addToHistory starts from: the parsed file, or [] when the file is
\* missing or does not parse
ReadHistory(hf) == IF hf.st = "json" THEN hf.v.a ELSE <<>>

\* addToHistory after the history file was written, saveDelta having given sd
HistorySaved(h, sd) ==
  [history |-> Json(Arr(h)), plain |-> sd.plain, journal |-> sd.journal, io |-> sd.io,
   log |-> sd.log, threw |-> sd.threw]

\* the second try of addToHistory on the capped history h: write the file, then
\* record the history in the journal; a failed write is caught and only logged
SaveHistory(hf, pl, jr, h, now, writeFails, appendFails) ==
  IF writeFails
  THEN [history |-> hf, plain |-> pl, journal |-> jr, io |-> {"write"},
        log |-> {"Could not save session history"}, threw |-> FALSE]
  ELSE HistorySaved(h, saveDelta(pl, jr, DeltaLine("set", "sessionHistory", Arr(h)), now,
                                 appendFails, FALSE, FALSE))

addToHistory(hf, pl, jr, entry, now, writeFails, appendFails) ==
  SaveHistory(hf, pl, jr, PushCapped(ReadHistory(hf), entry), now, writeFails, appendFails)

\* the history file a run starts with holds n earlier entries
EarlierHistory(n) == Arr([i \in 1..n |-> HistoryEntry(i)])

\* the number of addToHistory calls of a run
MaxHistoryCalls == 3

InitHistory ==
  /\ history \in {Absent, Corrupt, Json(EarlierHistory(0)),
                  Json(EarlierHistory(HISTORY_LIMIT - 1)), Json(EarlierHistory(HISTORY_LIMIT))}
  /\ OthersIdle
  /\ plain = Absent
  /\ gz = Absent
  /\ journal \in {NoJournal, JournalOf(<<>>)}
  /\ md = FALSE
  /\ metadata = Null
  /\ writes = 0
  /\ last = Idle
  /\ call = NoCall

\* the step of an addToHistory call that gave r
AddToHistoryReturns(r) ==
  /\ writes < MaxHistoryCalls
  /\ writes' = writes + 1
  /\ history' = r.history
  /\ plain' = r.plain
  /\ journal' = r.journal
  /\ last' = [Idle EXCEPT !.op = "addToHistory", !.log = r.log, !.io = r.io,
                          !.threw = r.threw]
  /\ UNCHANGED <<gz, md, metadata, call, others>>

\* the entries of a run carry increasing timestamps, later than the earlier entries'
AddToHistory(now, writeFails, appendFails) ==
  AddToHistoryReturns(addToHistory(history, plain, journal,
                                   HistoryEntry(HISTORY_LIMIT + writes + 1), now,
                                   writeFails, appendFails))

NextHistory ==
  \E now \in Times, wf \in BOOLEAN, af \in BOOLEAN : AddToHistory(now, wf, af)

SpecHistory == InitHistory /\ [][NextHistory]_vars

----------------------------------------------------------------------------
(* Two loader instances on the same files: one appends with saveDelta, the other   *)
(* runs compactDeltas.  Each file operation of compactDeltas is a step of its own. *)

\* the delta the k-th update of the appending instance writes: one more project
ProjectDelta(k) ==
  DeltaLine("add", "root.essential.projects", Str("project-" \o ToString(k)))

\* the number of updates of the appending instance
MaxAppends == 3

\* compactDeltas before its first file operation; appended lists the lines whose
\* append has succeeded so far (kept for the properties, not read by any step)
CompactorAt(pc, m, read, appended) ==
  [fn |-> "compactDeltas", pc |-> pc, metadata |-> m, read |-> read, appended |-> appended]

InitTwoWriters ==
  /\ history = Absent
  /\ OthersIdle
  /\ plain \in {Absent, Json(ValidSnapshot)}
  /\ gz = Absent
  /\ journal \in {NoJournal, JournalOf(<<>>)}
  /\ md = FALSE
  /\ metadata = Null
  /\ writes = 0
  /\ last = Idle
  /\ call = CompactorAt("idle", Undef, <<>>, <<>>)

\* the appending instance: one saveDelta (append, then the threshold check)
ConcurrentAppendReturns(line, r) ==
  /\ Len(call.appended) < MaxAppends
  /\ plain' = r.plain
  /\ journal' = r.journal
  /\ last' = [Idle EXCEPT !.op = "saveDelta", !.log = r.log, !.io = r.io]
  /\ call' = [call EXCEPT !.appended = Append(call.appended, line)]
  /\ UNCHANGED <<gz, md, metadata, writes, history, others>>

ConcurrentAppend(now) ==
  ConcurrentAppendReturns(ProjectDelta(Len(call.appended) + 1),
                          saveDelta(plain, journal, ProjectDelta(Len(call.appended) + 1),
                                    now, FALSE, FALSE, FALSE))

\* lines 416-420 of compactDeltas: read the plain snapshot, or take the default
CompactLoad(now) ==
  /\ call.pc \in {"idle", "done"}
  /\ writes < MaxWrites
  /\ writes' = writes + 1
  /\ call' = [call EXCEPT !.pc = "loaded", !.metadata = CompactionStart(plain, now),
                          !.read = <<>>]
  /\ last' = [Idle EXCEPT !.op = "compactDeltas"]
  /\ UNCHANGED <<plain, gz, journal, md, metadata, history, others>>

\* lines 423-429: read the journal as it is now, fold it, stamp and count
CompactFold(now) ==
  /\ call.pc = "loaded"
  /\ call' = [call EXCEPT !.pc = "folded",
                          !.metadata = Finalize(applyDeltasToMetadata(call.metadata, journal,
                                                                      now).ret, now),
                          !.read = journal.lines]
  /\ last' = [Idle EXCEPT !.op = "compactDeltas"]
  /\ UNCHANGED <<plain, gz, journal, md, metadata, writes, history, others>>

\* line 432: write the folded snapshot
CompactPersist ==
  /\ call.pc = "folded"
  /\ plain' = Json(call.metadata)
  /\ call' = [call EXCEPT !.pc = "written"]
  /\ last' = [Idle EXCEPT !.op = "compactDeltas", !.wrote = TRUE]
  /\ UNCHANGED <<gz, journal, md, metadata, writes, history, others>>

\* a removal that spares the lines written after the journal was read
KeepUnread(jr, read) ==
  IF Len(jr.lines) > Len(read)
  THEN JournalOf(SubSeq(jr.lines, Len(read) + 1, Len(jr.lines)))
  ELSE NoJournal

\* fs.unlinkSync(deltaPath): the file goes, with whatever it holds by now
RemoveJournal(jr, read) == NoJournal

\* line 435: remove the journal; a missing file makes unlinkSync throw into the catch
CompactTruncate ==
  /\ call.pc = "written"
  /\ call' = [call EXCEPT !.pc = "done"]
  /\ IF journal.exists
     THEN /\ journal' = RemoveJournal(journal, call.read)
          /\ last' = [Idle EXCEPT !.op = "compactDeltas", !.log = {"Deltas compacted"},
                                  !.compacted = TRUE]
     ELSE /\ journal' = journal
          /\ last' = [Idle EXCEPT !.op = "compactDeltas", !.io = {"unlink"},
                                  !.log = {"Error compacting deltas"}]
  /\ UNCHANGED <<plain, gz, md, metadata, writes, history, others>>

NextTwoWriters ==
  \/ \E now \in Times : ConcurrentAppend(now)
  \/ \E now \in Times : CompactLoad(now)
  \/ \E now \in Times : CompactFold(now)
  \/ CompactPersist
  \/ CompactTruncate

SpecTwoWriters == InitTwoWriters /\ [][NextTwoWriters]_vars

----------------------------------------------------------------------------
(* PluginManager: the registry and its asynchronous operations.  A call is a task; *)
(* each action runs a task from one await to the next.                             *)

\* the plugin configurations of the tests: a plugin, one that depends on it, and
\* one registered disabled
PluginConfigs ==
  { [name |-> "dependency", dependencies |-> <<>>, enabled |-> TRUE],
    [name |-> "main-plugin", dependencies |-> <<"dependency">>, enabled |-> TRUE],
    [name |-> "plugin2", dependencies |-> <<>>, enabled |-> FALSE] }

PluginNames == {c.name : c \in PluginConfigs}

\* lines 94-99 of registerPlugin: the metadata of a newly registered plugin
NewMetadata(config) ==
  [config |-> config, loaded |-> FALSE, enabled |-> (config.enabled # FALSE),
   lastError |-> FALSE]

\* a call of fn; target is the plugin a loadPlugin or unloadPlugin (called directly or
\* from registerPlugin / disablePlugin) works on, rest the dependencies still to check
Task(fn, config, pc) ==
  [fn |-> fn, name |-> config.name, config |-> config, pc |-> pc, target |-> config.name,
   rest |-> <<>>]

Settled(t) == t.pc \in {"done", "threw"}

\* the loop of checkDependencies over deps, up to its next await or its end
RECURSIVE checkDependencies(_, _, _)
checkDependencies(t, reg, deps) ==
  IF deps = <<>> THEN [t EXCEPT !.pc = "set", !.rest = <<>>]
  ELSE IF Head(deps) \notin DOMAIN reg THEN [t EXCEPT !.pc = "threw"]
  ELSE IF ~reg[Head(deps)].enabled THEN [t EXCEPT !.pc = "threw"]
  ELSE IF ~reg[Head(deps)].loaded
  THEN [t EXCEPT !.pc = "load", !.target = Head(deps), !.rest = Tail(deps)]
  ELSE checkDependencies(t, reg, Tail(deps))

\* where a task goes on when its loadPlugin has returned
Loaded(t, reg) ==
  IF t.fn = "registerPlugin" THEN checkDependencies(t, reg, t.rest)
  ELSE [t EXCEPT !.pc = "done"]

\* where a task goes on when its unloadPlugin has returned
Unloaded(t) ==
  IF t.fn = "disablePlugin" THEN [t EXCEPT !.pc = "disable"] ELSE [t EXCEPT !.pc = "done"]

\* task i goes on as t with the registry reg
PluginStep(i, t, reg) ==
  /\ tasks' = [tasks EXCEPT ![i] = t]
  /\ registry' = reg
  /\ UNCHANGED <<appConfig, delivery>>
  /\ UNCHANGED <<plain, gz, journal, md, metadata, writes, last, call, history, handler>>

\* the number of calls of a run
MaxPluginCalls == 6

InitPlugins ==
  /\ appConfig = <<>>
  /\ delivery = <<>>
  /\ history = Absent
  /\ plain = Absent
  /\ gz = Absent
  /\ journal = NoJournal
  /\ md = FALSE
  /\ metadata = Null
  /\ writes = 0
  /\ last = Idle
  /\ call = NoCall
  /\ registry = <<>>
  /\ tasks = <<>>
  /\ handler = <<>>

\* a call made when every earlier call has settled (each call is awaited)
CallPlugin(fn, config) ==
  /\ \A i \in 1..Len(tasks) : Settled(tasks[i])
  /\ writes < MaxPluginCalls
  /\ writes' = writes + 1
  /\ tasks' = <<Task(fn, config, CASE fn = "loadPlugin" -> "load"
                                   [] fn = "unloadPlugin" -> "unload"
                                   [] OTHER -> "start")>>
  /\ UNCHANGED <<appConfig, delivery>>
  /\ UNCHANGED <<plain, gz, journal, md, metadata, last, call, history, registry, handler>>

\* lines 83-99 of registerPlugin: duplicate check, then the dependencies or the entry
RegisterPlugin(i) ==
  /\ tasks[i].fn = "registerPlugin"
  /\ tasks[i].pc = "start"
  /\ IF tasks[i].name \in DOMAIN registry
     THEN PluginStep(i, [tasks[i] EXCEPT !.pc = "threw"], registry)
     ELSE IF tasks[i].config.dependencies = <<>>
     THEN PluginStep(i, [tasks[i] EXCEPT !.pc = "done"],
                     (tasks[i].name :> NewMetadata(tasks[i].config)) @@ registry)
     ELSE PluginStep(i, checkDependencies(tasks[i], registry, tasks[i].config.dependencies),
                     registry)

\* lines 94-99 of registerPlugin, reached after the await of checkDependencies
RegisterSet(i) ==
  /\ tasks[i].pc = "set"
  /\ PluginStep(i, [tasks[i] EXCEPT !.pc = "done"],
                (tasks[i].name :> NewMetadata(tasks[i].config)) @@ registry)

\* lines 113-142 of loadPlugin: the checks, then the call of instance.initialize
LoadPlugin(i) ==
  /\ tasks[i].pc = "load"
  /\ IF tasks[i].target \notin DOMAIN registry
     THEN PluginStep(i, [tasks[i] EXCEPT !.pc = "threw"], registry)
     ELSE IF registry[tasks[i].target].loaded
     THEN PluginStep(i, Loaded(tasks[i], registry), registry)
     ELSE IF ~registry[tasks[i].target].enabled
     THEN PluginStep(i, [tasks[i] EXCEPT !.pc = "threw"], registry)
     ELSE PluginStep(i, [tasks[i] EXCEPT !.pc = "initializing"], registry)

\* the registry once initialize has resolved (lines 145-146)
MarkLoaded(reg, name) == [reg EXCEPT ![name].loaded = TRUE]

\* lines 142-155 of loadPlugin: initialize has resolved (ok) or rejected
Initialized(i, ok) ==
  /\ tasks[i].pc = "initializing"
  /\ IF ok
     THEN PluginStep(i, Loaded(tasks[i], MarkLoaded(registry, tasks[i].target)),
                     MarkLoaded(registry, tasks[i].target))
     ELSE PluginStep(i, [tasks[i] EXCEPT !.pc = "threw"],
                     [registry EXCEPT ![tasks[i].target].lastError = TRUE])

\* lines 162-173 of unloadPlugin: the checks, then the call of instance.cleanup
UnloadPlugin(i) ==
  /\ tasks[i].pc = "unload"
  /\ IF tasks[i].target \notin DOMAIN registry
     THEN PluginStep(i, [tasks[i] EXCEPT !.pc = "threw"], registry)
     ELSE IF ~registry[tasks[i].target].loaded
     THEN PluginStep(i, Unloaded(tasks[i]), registry)
     ELSE PluginStep(i, [tasks[i] EXCEPT !.pc = "cleaning"], registry)

\* lines 173-188 of unloadPlugin: cleanup has resolved (ok) or rejected
CleanedUp(i, ok) ==
  /\ tasks[i].pc = "cleaning"
  /\ IF ok
     THEN PluginStep(i, Unloaded(tasks[i]),
                     [registry EXCEPT ![tasks[i].target].loaded = FALSE,
                                      ![tasks[i].target].lastError = FALSE])
     ELSE PluginStep(i, [tasks[i] EXCEPT !.pc = "threw"],
                     [registry EXCEPT ![tasks[i].target].lastError = TRUE])

\* enablePlugin up to its first await
EnablePlugin(i) ==
  /\ tasks[i].fn = "enablePlugin"
  /\ tasks[i].pc = "start"
  /\ IF tasks[i].name \notin DOMAIN registry
     THEN PluginStep(i, [tasks[i] EXCEPT !.pc = "threw"], registry)
     ELSE PluginStep(i, [tasks[i] EXCEPT !.pc = "done"],
                     [registry EXCEPT ![tasks[i].name].enabled = TRUE])

\* lines 247-257 of disablePlugin: a loaded plugin is unloaded first
DisablePlugin(i) ==
  /\ tasks[i].fn = "disablePlugin"
  /\ tasks[i].pc = "start"
  /\ IF tasks[i].name \notin DOMAIN registry
     THEN PluginStep(i, [tasks[i] EXCEPT !.pc = "threw"], registry)
     ELSE IF registry[tasks[i].name].loaded
     THEN PluginStep(i, [tasks[i] EXCEPT !.pc = "unload"], registry)
     ELSE PluginStep(i, [tasks[i] EXCEPT !.pc = "done"],
                     [registry EXCEPT ![tasks[i].name].enabled = FALSE])

\* line 257 of disablePlugin, reached after the await of unloadPlugin
DisableSet(i) ==
  /\ tasks[i].pc = "disable"
  /\ PluginStep(i, [tasks[i] EXCEPT !.pc = "done"],
                [registry EXCEPT ![tasks[i].name].enabled = FALSE])

\* the metrics with the disabled plugins counted as those that are not loaded
getPluginMetricsByLoaded(reg) ==
  [total    |-> Cardinality(DOMAIN reg),
   loaded   |-> Cardinality({n \in DOMAIN reg : reg[n].loaded}),
   enabled  |-> Cardinality({n \in DOMAIN reg : reg[n].enabled}),
   disabled |-> Cardinality({n \in DOMAIN reg : ~reg[n].loaded}),
   withErrors |-> Cardinality({n \in DOMAIN reg : reg[n].lastError})]

\* getPluginMetrics: the registry's values, filtered and counted
getPluginMetrics(reg) ==
  [total    |-> Cardinality(DOMAIN reg),
   loaded   |-> Cardinality({n \in DOMAIN reg : reg[n].loaded}),
   enabled  |-> Cardinality({n \in DOMAIN reg : reg[n].enabled}),
   disabled |-> Cardinality({n \in DOMAIN reg : ~reg[n].enabled}),
   withErrors |-> Cardinality({n \in DOMAIN reg : reg[n].lastError})]

\* a getPluginMetrics call (synchronous)
GetPluginMetrics ==
  /\ call' = [fn |-> "getPluginMetrics", ret |-> getPluginMetrics(registry)]
  /\ UNCHANGED <<appConfig, delivery>>
  /\ UNCHANGED <<plain, gz, journal, md, metadata, writes, last, history, registry, tasks,
                 handler>>

PluginSteps ==
  \E i \in 1..Len(tasks) :
    \/ RegisterPlugin(i)
    \/ RegisterSet(i)
    \/ LoadPlugin(i)
    \/ \E ok \in BOOLEAN : Initialized(i, ok)
    \/ UnloadPlugin(i)
    \/ \E ok \in BOOLEAN : CleanedUp(i, ok)
    \/ EnablePlugin(i)
    \/ DisablePlugin(i)
    \/ DisableSet(i)

NextPlugins ==
  \/ \E fn \in {"registerPlugin", "loadPlugin", "unloadPlugin", "enablePlugin",
                "disablePlugin"}, config \in PluginConfigs : CallPlugin(fn, config)
  \/ PluginSteps
  \/ GetPluginMetrics

SpecPlugins == InitPlugins /\ [][NextPlugins]_vars

\* calls that are not awaited: the calls in flight at one time, and the calls of a run
MaxInFlight == 2

MaxAsyncCalls == 4

Pending(t) == ~Settled(t)

\* a call made while earlier calls may still be between two of their awaits
CallOverlapping(fn, config) ==
  /\ Len(SelectSeq(tasks, Pending)) < MaxInFlight
  /\ writes < MaxAsyncCalls
  /\ writes' = writes + 1
  /\ tasks' = Append(SelectSeq(tasks, Pending),
                     Task(fn, config, CASE fn = "loadPlugin" -> "load"
                                        [] fn = "unloadPlugin" -> "unload"
                                        [] OTHER -> "start"))
  /\ UNCHANGED <<appConfig, delivery>>
  /\ UNCHANGED <<plain, gz, journal, md, metadata, last, call, history, registry, handler>>

NextPluginsAsync ==
  \/ \E fn \in {"registerPlugin", "loadPlugin", "unloadPlugin", "enablePlugin",
                "disablePlugin"}, config \in PluginConfigs : CallOverlapping(fn, config)
  \/ PluginSteps

SpecPluginsAsync == InitPlugins /\ [][NextPluginsAsync]_vars

----------------------------------------------------------------------------
(* ErrorHandler: the error counts, their statistics, and retry.  A string that is  *)
(* split at ':' is kept as the sequence of its parts.                              *)

\* the parts joined by ':' (the string itself)
RECURSIVE JoinColon(_)
JoinColon(parts) ==
  IF Len(parts) = 1 THEN parts[1] ELSE parts[1] \o ":" \o JoinColon(Tail(parts))

\* context.operation of the calls: the names of the tests and one that holds a ':'
Operations == {<<"test1">>, <<"test2">>, <<"db", "query">>}

\* new Error(message); temporary = the message matches a pattern of the default
\* retryCondition
PlainError(message, temporary) ==
  [message |-> <<message>>, temporary |-> temporary, automation |-> FALSE, retryable |-> FALSE]

\* new AutomationError(message, code, severity, retryable)
AutomationError(message, retryable) ==
  [message |-> <<message>>, temporary |-> FALSE, automation |-> TRUE, retryable |-> retryable]

Errors ==
  { PlainError("Error 1", FALSE), PlainError("Temporary failure", TRUE),
    AutomationError("Rate exceeded", TRUE), AutomationError("Fatal", FALSE) }

\* the handler with no error recorded; calls lists the operations of the handleError
\* calls since the last clearErrorHistory (kept for the properties, read by no step)
NoErrors == [errorCounts |-> <<>>, calls |-> <<>>]

\* `${context.operation}:${error.message}`
ErrorKey(operation, error) == operation \o error.message

\* this.errorCounts.get(errorKey) || 0
ErrorCount(counts, key) == IF key \in DOMAIN counts THEN counts[key] ELSE 0

\* lines 55-61 of handleError, which run before its first await
handleError(h, error, operation) ==
  [errorCounts |-> (ErrorKey(operation, error)
                      :> (ErrorCount(h.errorCounts, ErrorKey(operation, error)) + 1))
                   @@ h.errorCounts,
   calls |-> Append(h.calls, operation)]

\* the sum of the counts of the keys in ks
RECURSIVE SumCounts(_, _)
SumCounts(counts, ks) ==
  IF ks = {} THEN 0
  ELSE LET k == CHOOSE x \in ks : TRUE IN counts[k] + SumCounts(counts, ks \ {k})

\* keyParts[0] || 'unknown'
OperationOfKey(key) == IF key[1] = "" THEN "unknown" ELSE key[1]

\* getErrorStats: the total and the counts by the first part of each key
getErrorStats(h) ==
  [totalErrors |-> SumCounts(h.errorCounts, DOMAIN h.errorCounts),
   errorsByOperation |->
     [o \in {OperationOfKey(k) : k \in DOMAIN h.errorCounts} |->
        SumCounts(h.errorCounts, {k \in DOMAIN h.errorCounts : OperationOfKey(k) = o})]]

\* the operation of a retry call: what its successive invocations do
Succeeds(value) == [ok |-> TRUE, value |-> value]
Fails(error) == [ok |-> FALSE, error |-> error]

\* the longest retry
MaxAttempts == 3

Scripts ==
  [1..MaxAttempts -> {Succeeds("success")} \cup {Fails(e) : e \in Errors}]

\* config.retryCondition: none given, or the default of validateRetryConfig
RetryConfigs ==
  {[maxAttempts |-> n, retryCondition |-> c] : n \in 0..MaxAttempts, c \in {"none", "default"}}

\* a loop that goes on to the next attempt after the last one allowed
RECURSIVE RetryOnceMore(_, _, _)
RetryOnceMore(attempt, operation, config) ==
  IF attempt > config.maxAttempts + 1 \/ attempt > Len(operation)
  THEN [returned |-> FALSE, invoked |-> attempt - 1, failed |-> attempt > 1,
        lastError |-> operation[IF attempt > 1 THEN attempt - 1 ELSE 1].error]
  ELSE IF operation[attempt].ok
  THEN [returned |-> TRUE, invoked |-> attempt, value |-> operation[attempt].value]
  ELSE RetryOnceMore(attempt + 1, operation, config)

\* the for-loop of retry from the given attempt on: invoked counts the invocations of
\* the operation, lastError is the error the loop ended with
RECURSIVE RetryLoop(_, _, _)
RetryLoop(attempt, operation, config) ==
  IF attempt > config.maxAttempts
  THEN [returned |-> FALSE, invoked |-> attempt - 1, failed |-> FALSE]
  ELSE IF operation[attempt].ok
  THEN [returned |-> TRUE, invoked |-> attempt, value |-> operation[attempt].value]
  ELSE IF config.retryCondition = "default" /\ ~operation[attempt].error.temporary
  THEN [returned |-> FALSE, invoked |-> attempt, failed |-> TRUE,
        lastError |-> operation[attempt].error]
  ELSE IF operation[attempt].error.automation /\ ~operation[attempt].error.retryable
  THEN [returned |-> FALSE, invoked |-> attempt, failed |-> TRUE,
        lastError |-> operation[attempt].error]
  ELSE IF attempt = config.maxAttempts
  THEN [returned |-> FALSE, invoked |-> attempt, failed |-> TRUE,
        lastError |-> operation[attempt].error]
  ELSE RetryLoop(attempt + 1, operation, config)

\* the end of retry with the last error thrown but not handed to handleError
RetryEndsUnhandled(h, l, operationName) ==
  IF l.returned
  THEN [handler |-> h, threw |-> "none", thrown |-> {}, ret |-> l.value, invoked |-> l.invoked]
  ELSE IF ~l.failed
  THEN [handler |-> h, threw |-> "TypeError", thrown |-> {}, ret |-> "", invoked |-> l.invoked]
  ELSE [handler |-> h, threw |-> "lastError", thrown |-> {l.lastError}, ret |-> "",
        invoked |-> l.invoked]

\* lines 130-132 of retry, given what the loop gave: with no attempt made lastError
\* is undefined and handleError throws a TypeError on error.message.  thrown holds
\* the error of the operation that retry throws, if it throws one.
RetryEnds(h, l, operationName) ==
  IF l.returned
  THEN [handler |-> h, threw |-> "none", thrown |-> {}, ret |-> l.value, invoked |-> l.invoked]
  ELSE IF ~l.failed
  THEN [handler |-> h, threw |-> "TypeError", thrown |-> {}, ret |-> "", invoked |-> l.invoked]
  ELSE [handler |-> handleError(h, l.lastError, operationName), threw |-> "lastError",
        thrown |-> {l.lastError}, ret |-> "", invoked |-> l.invoked]

retry(h, operation, config, operationName) ==
  RetryEnds(h, RetryLoop(1, operation, config), operationName)

\* the number of handleError and retry calls of a run
MaxHandlerCalls == 3

InitHandler ==
  /\ appConfig = <<>>
  /\ delivery = <<>>
  /\ history = Absent
  /\ plain = Absent
  /\ gz = Absent
  /\ journal = NoJournal
  /\ md = FALSE
  /\ metadata = Null
  /\ writes = 0
  /\ last = Idle
  /\ call = NoCall
  /\ registry = <<>>
  /\ tasks = <<>>
  /\ handler = NoErrors

\* a handleError call; its promise (the logging after the counts) stays pending
HandleError(error, operation) ==
  /\ writes < MaxHandlerCalls
  /\ writes' = writes + 1
  /\ handler' = handleError(handler, error, operation)
  /\ tasks' = Append(tasks, [fn |-> "handleError", pc |-> "logging"])
  /\ UNCHANGED <<appConfig, delivery>>
  /\ UNCHANGED <<plain, gz, journal, md, metadata, last, call, history, registry>>

\* the promise of the oldest pending handleError call resolves
HandleErrorSettles ==
  /\ tasks # <<>>
  /\ tasks' = Tail(tasks)
  /\ UNCHANGED <<appConfig, delivery>>
  /\ UNCHANGED <<plain, gz, journal, md, metadata, writes, last, call, history, registry,
                 handler>>

ClearErrorHistory ==
  /\ handler # NoErrors
  /\ handler' = NoErrors
  /\ UNCHANGED <<appConfig, delivery>>
  /\ UNCHANGED <<plain, gz, journal, md, metadata, writes, last, call, history, registry,
                 tasks>>

GetErrorStats ==
  /\ call' = [fn |-> "getErrorStats", ret |-> getErrorStats(handler)]
  /\ UNCHANGED <<appConfig, delivery>>
  /\ UNCHANGED <<plain, gz, journal, md, metadata, writes, last, history, registry, tasks,
                 handler>>

NextHandler ==
  \/ \E error \in Errors, operation \in Operations : HandleError(error, operation)
  \/ HandleErrorSettles
  \/ ClearErrorHistory
  \/ GetErrorStats

SpecHandler == InitHandler /\ [][NextHandler]_vars

\* retry calls: the operation, the configuration and the handler's counts so far
InitRetry ==
  /\ appConfig = <<>>
  /\ delivery = <<>>
  /\ history = Absent
  /\ plain = Absent
  /\ gz = Absent
  /\ journal = NoJournal
  /\ md = FALSE
  /\ metadata = Null
  /\ writes = 0
  /\ last = Idle
  /\ registry = <<>>
  /\ tasks = <<>>
  /\ handler \in {NoErrors,
                  handleError(NoErrors, PlainError("Temporary failure", TRUE), <<"retry-test">>)}
  /\ call \in {[fn |-> "retry", st |-> "pending", operation |-> o, config |-> c,
                ret |-> "", threw |-> "none", thrown |-> {}, invoked |-> 0] :
                 o \in Scripts, c \in RetryConfigs}

\* the step of a retry call that gave r
RetryReturns(r) ==
  /\ call.fn = "retry"
  /\ call.st = "pending"
  /\ handler' = r.handler
  /\ call' = [call EXCEPT !.st = "done", !.ret = r.ret, !.threw = r.threw,
                          !.thrown = r.thrown, !.invoked = r.invoked]
  /\ UNCHANGED <<appConfig, delivery>>
  /\ UNCHANGED <<plain, gz, journal, md, metadata, writes, last, history, registry, tasks>>

Retry == RetryReturns(retry(handler, call.operation, call.config, <<"retry-test">>))

SpecRetry == InitRetry /\ [][Retry]_vars


----------------------------------------------------------------------------
(* Repeated compaction of a journal of add deltas, with failing file operations *)

\* add deltas: one on an array, one on a number
AddDeltas ==
  { DeltaLine("add", "root.essential.projects", Str("toku-tracker")),
    DeltaLine("add", "root.essential.sessionCount", Num(2)) }

\* the longest journal of these runs
MaxRefold == 2

InitRefold ==
  /\ history = Absent
  /\ OthersIdle
  /\ plain \in {Absent, Json(ValidSnapshot)}
  /\ gz = Absent
  /\ journal \in {JournalOf(l) : l \in UNION {[1..n -> AddDeltas] : n \in 1..MaxRefold}}
  /\ md = FALSE
  /\ metadata = Null
  /\ writes = 0
  /\ last = Idle
  /\ call = NoCall

NextRefold ==
  \E now \in Times, wf \in BOOLEAN, uf \in BOOLEAN : CompactDeltas(now, wf, uf)

SpecRefold == InitRefold /\ [][NextRefold]_vars

----------------------------------------------------------------------------
(* updateMetadata on an initialized loader: the journal and this.metadata *)

\* lines 448-455 of updateMetadata: the write into this.metadata.essential, following
\* the segments after the first; a missing object on the way makes the write throw
RECURSIVE WriteInMemory(_, _, _, _)
WriteInMemory(target, keys, i, value) ==
  IF ~Truthy(target) \/ ~TypeofObject(target) THEN [threw |-> TRUE, v |-> target]
  ELSE IF i = Len(keys) THEN [threw |-> FALSE, v |-> Put(target, keys[i], value)]
  ELSE LET w == WriteInMemory(Get(target, keys[i]), keys, i + 1, value)
       IN [threw |-> w.threw, v |-> IF w.threw THEN target ELSE Put(target, keys[i], w.v)]

\* this.metadata after updateMetadata(field, value)
UpdatedInMemory(mem, field, value) ==
  IF Truthy(mem) /\ Len(Split(field)) >= 2 /\ Split(field)[1] = "essential"
  THEN IF WriteInMemory(Get(mem, "essential"), Split(field), 2, value).threw
       THEN [threw |-> TRUE, metadata |-> mem]
       ELSE [threw |-> FALSE,
             metadata |-> Put(mem, "essential",
                              WriteInMemory(Get(mem, "essential"), Split(field), 2, value).v)]
  ELSE [threw |-> FALSE, metadata |-> mem]

\* what updateMetadata leaves, saveDelta having given sd and the in-memory write w
MetadataUpdated(sd, w) ==
  [plain |-> sd.plain, journal |-> sd.journal, ran |-> sd.ran, io |-> sd.io, log |-> sd.log,
   metadata |-> w.metadata, threw |-> sd.threw \/ w.threw]

\* updateMetadata(field, value) with this.metadata = mem
updateMetadata(pl, jr, mem, field, value, now, appendFails) ==
  MetadataUpdated(saveDelta(pl, jr, DeltaLine("set", field, value), now, appendFails,
                            FALSE, FALSE),
                  UpdatedInMemory(mem, field, value))

\* the updates of saveNewSession
SessionUpdates ==
  { [field |-> "essential.lastSession", value |-> Str("2026-01-18")],
    [field |-> "essential.lastSession", value |-> Str("2026-01-19")],
    [field |-> "essential.sessionCount", value |-> Num(6)],
    [field |-> "essential.sessionCount", value |-> Num(7)] }

\* the number of updates of a run
MaxUpdates == 3

InitUpdate ==
  /\ history = Absent
  /\ OthersIdle
  /\ plain \in {Absent, Json(ValidSnapshot)}
  /\ gz = Absent
  /\ md \in BOOLEAN
  /\ journal \in {NoJournal, JournalOf(<<>>)}
  /\ metadata = Null
  /\ writes = 0
  /\ last = Idle
  /\ call = NoCall

\* the step of an updateMetadata call that gave r
UpdateMetadataReturns(r) ==
  /\ writes < MaxUpdates
  /\ writes' = writes + 1
  /\ plain' = r.plain
  /\ journal' = r.journal
  /\ metadata' = r.metadata
  /\ last' = [Idle EXCEPT !.op = "updateMetadata", !.log = r.log, !.io = r.io,
                          !.threw = r.threw, !.compacted = r.ran]
  /\ UNCHANGED <<gz, md, call, history, others>>

UpdateMetadata(u, now, appendFails) ==
  UpdateMetadataReturns(updateMetadata(plain, journal, metadata, u.field, u.value, now,
                                       appendFails))

NextUpdate ==
  \/ \E now \in Times : Initialize(now)
  \/ \E u \in SessionUpdates, now \in Times, af \in BOOLEAN : UpdateMetadata(u, now, af)

SpecUpdate == InitUpdate /\ [][NextUpdate]_vars

----------------------------------------------------------------------------
(* ConfigManager: the configuration held in memory, get and set *)

\* a key string as key.split('.') gives it: the sequence of its segments
ConfigKeys ==
  {<<"logLevel">>, <<"workingDir">>, <<"security">>, <<"security", "logRetentionDays">>,
   <<"logLevel", "colour">>, <<"custom">>, <<"custom", "flag">>, <<"">>}

LogLevels == {"debug", "info", "warn", "error"}

\* the fields of the default configuration the model follows; the fields no call of the
\* model sets (autoFix, skipProjects, plugins, ...) keep their defaults and stay valid
DefaultConfig ==
  Obj([workingDir |-> Str("/home/meep"), logLevel |-> Str("info"),
       security |-> Obj([logRetentionDays |-> Num(30)])])

\* the zod schema on the fields followed; keys the schema does not name are ignored
validateConfig(c) ==
  /\ Get(c, "workingDir").t = "str"
  /\ Get(c, "workingDir").s # ""
  /\ Get(c, "logLevel").t = "str"
  /\ Get(c, "logLevel").s \in LogLevels
  /\ Get(c, "security").t = "obj"
  /\ Get(Get(c, "security"), "logRetentionDays").t = "num"
  /\ Get(Get(c, "security"), "logRetentionDays").n >= 1
  /\ Get(Get(c, "security"), "logRetentionDays").n <= 365

\* get(key): walks the segments, undefined (no defaultValue given) once one is missing
RECURSIVE ConfigGet(_, _)
ConfigGet(value, keys) ==
  IF keys = <<>> THEN value
  ELSE IF value.t = "obj" /\ Head(keys) \in DOMAIN value.o
       THEN ConfigGet(value.o[Head(keys)], Tail(keys))
       ELSE Undef

\* the navigation loop of set followed by target[lastKey] = value: a segment that is
\* missing or holds no object is overwritten with {} on the way
RECURSIVE Assign(_, _, _)
Assign(target, keys, value) ==
  IF Len(keys) = 1 THEN Put(target, keys[1], value)
  ELSE LET k == Head(keys)
           child == IF k \notin DOMAIN target.o \/ ~TypeofObject(target.o[k])
                    THEN EmptyObj ELSE target.o[k]
       IN  Put(target, k, Assign(child, Tail(keys), value))

\* set(key, value): what it leaves in memory and in the file, and what it threw
ConfigSet(m, keys, value, saveFails) ==
  IF keys[Len(keys)] = ""
  THEN [config |-> m.config, file |-> m.file, threw |-> "key"]
  ELSE LET c == Assign(m.config, keys, value)
       IN  IF ~validateConfig(c)
           THEN [config |-> c, file |-> m.file, threw |-> "validation"]
           ELSE IF saveFails
                THEN [config |-> c, file |-> m.file, threw |-> "save"]
                ELSE [config |-> c, file |-> Json(c), threw |-> "none"]

\* the values the calls of the model set
ConfigValues == {Str("debug"), Str("verbose"), Num(90), Num(0), Str("on")}

MaxSets == 2

\* the constructor has loaded a valid configuration and the file holds it
InitConfig ==
  /\ history = Absent
  /\ plain = Absent
  /\ gz = Absent
  /\ journal = NoJournal
  /\ md = FALSE
  /\ metadata = Null
  /\ writes = 0
  /\ last = Idle
  /\ call = NoCall
  /\ registry = <<>>
  /\ tasks = <<>>
  /\ handler = <<>>
  /\ delivery = <<>>
  /\ appConfig \in {[config |-> c, file |-> Json(c)] :
                    c \in {DefaultConfig, Put(DefaultConfig, "logLevel", Str("warn"))}}

SetConfig(keys, value, saveFails) ==
  LET r == ConfigSet(appConfig, keys, value, saveFails)
  IN  /\ writes < MaxSets
      /\ writes' = writes + 1
      /\ appConfig' = [config |-> r.config, file |-> r.file]
      /\ call' = [fn |-> "set", key |-> keys, value |-> value, threw |-> r.threw]
      /\ UNCHANGED <<plain, gz, journal, md, metadata, last, history, registry, tasks,
                     handler, delivery>>

GetConfig(keys) ==
  /\ call' = [fn |-> "get", key |-> keys, ret |-> ConfigGet(appConfig.config, keys)]
  /\ UNCHANGED <<plain, gz, journal, md, metadata, writes, last, history, registry, tasks,
                 handler, delivery, appConfig>>

\* reset(): the defaults replace the configuration and are saved
ResetConfig(saveFails) ==
  /\ writes < MaxSets
  /\ writes' = writes + 1
  /\ appConfig' = [config |-> DefaultConfig,
                   file |-> IF saveFails THEN appConfig.file ELSE Json(DefaultConfig)]
  /\ call' = [fn |-> "reset", threw |-> IF saveFails THEN "save" ELSE "none"]
  /\ UNCHANGED <<plain, gz, journal, md, metadata, last, history, registry, tasks,
                 handler, delivery>>

NextConfig ==
  \/ \E keys \in ConfigKeys, value \in ConfigValues, saveFails \in BOOLEAN :
       SetConfig(keys, value, saveFails)
  \/ \E keys \in ConfigKeys : GetConfig(keys)
  \/ \E saveFails \in BOOLEAN : ResetConfig(saveFails)

SpecConfig == InitConfig /\ [][NextConfig]_vars

----------------------------------------------------------------------------
(* IncrementalDelivery: milestones run in order, each after its dependencies *)

Milestone(name, priority, dependencies) ==
  [name |-> name, priority |-> priority, dependencies |-> dependencies]

\* the list defineMilestones installs
DefaultMilestones ==
  <<Milestone("Validate Environment", "critical", <<>>),
    Milestone("Discover Projects", "critical", <<"Validate Environment">>),
    Milestone("Analyze Tech Stack", "high", <<"Discover Projects">>),
    Milestone("Validate Each Project", "high", <<"Analyze Tech Stack">>),
    Milestone("Generate Recommendations", "medium", <<"Validate Each Project">>),
    Milestone("Update Automation", "low", <<"Generate Recommendations">>)>>

\* the state the constructor leaves; attempts lists, for the executeMilestones call in
\* progress, the milestones it has attempted and whether the work of each was run
NewDelivery ==
  [milestones |-> <<>>, currentMilestone |-> 0, results |-> <<>>, pc |-> "idle", i |-> 0,
   attempts |-> <<>>]

\* this.results.get(name)?.success
Successful(results, name) == name \in DOMAIN results /\ results[name].success

\* a dependency check that lets every milestone through
DependenciesIgnored(milestone, results) == TRUE

\* IncrementalDelivery.checkDependencies
DependenciesMet(milestone, results) ==
  \A j \in 1..Len(milestone.dependencies) : Successful(results, milestone.dependencies[j])

\* the milestone whose result the work of a milestone reads first, if it reads one
ReadsResultOf(name) ==
  CASE name = "Analyze Tech Stack"       -> <<"Discover Projects">>
    [] name = "Validate Each Project"    -> <<"Analyze Tech Stack">>
    [] name = "Generate Recommendations" -> <<"Validate Each Project">>
    [] name = "Update Automation"        -> <<"Generate Recommendations">>
    [] OTHER                             -> <<>>

\* whether the work of a milestone throws: validateEnvironment catches every failure of
\* its checks; the other works throw when the result they read is not a success, or for a
\* reason of their own (fails), as when the project scanner cannot be constructed
WorkThrows(name, results, fails) ==
  /\ name # "Validate Environment"
  /\ \/ fails
     \/ \E j \in 1..Len(ReadsResultOf(name)) : ~Successful(results, ReadsResultOf(name)[j])

\* the names the switch of executeMilestone knows
KnownMilestones == {DefaultMilestones[j].name : j \in 1..Len(DefaultMilestones)}

\* executeMilestone: whether it threw and whether it ran the work
executeMilestone(milestone, results, fails) ==
  IF ~DependenciesMet(milestone, results) THEN [threw |-> TRUE, worked |-> FALSE]
  ELSE IF milestone.name \notin KnownMilestones THEN [threw |-> TRUE, worked |-> FALSE]
  ELSE [threw |-> WorkThrows(milestone.name, results, fails), worked |-> TRUE]

\* this.results.set(name, {success, ...})
SetResult(results, name, success) ==
  [n \in (DOMAIN results) \cup {name} |->
     IF n = name THEN [success |-> success] ELSE results[n]]

\* requestConfirmation: for automation it answers to continue
requestConfirmation == TRUE

\* one pass of the loop of executeMilestones on the milestone at position d.i
Attempted(d, fails) ==
  LET milestone == d.milestones[d.i]
      r == executeMilestone(milestone, d.results, fails)
      stop == IF r.threw THEN milestone.priority = "critical"
              ELSE milestone.priority = "critical" /\ ~requestConfirmation
  IN  [d EXCEPT !.currentMilestone = d.i - 1,
                !.results = SetResult(d.results, milestone.name, ~r.threw),
                !.attempts = Append(d.attempts, [name |-> milestone.name,
                                                 worked |-> r.worked]),
                !.pc = IF stop \/ d.i = Len(d.milestones) THEN "report" ELSE "running",
                !.i = d.i + 1]

MaxRuns == 3

InitDelivery ==
  /\ history = Absent
  /\ plain = Absent
  /\ gz = Absent
  /\ journal = NoJournal
  /\ md = FALSE
  /\ metadata = Null
  /\ writes = 0
  /\ last = Idle
  /\ call = NoCall
  /\ registry = <<>>
  /\ tasks = <<>>
  /\ handler = <<>>
  /\ appConfig = <<>>
  /\ delivery = NewDelivery

DeliveryOnly ==
  UNCHANGED <<plain, gz, journal, md, metadata, last, call, history, registry, tasks,
              handler, appConfig>>

DefineMilestones ==
  /\ delivery.pc = "idle"
  /\ delivery.milestones = <<>>
  /\ delivery' = [delivery EXCEPT !.milestones = DefaultMilestones]
  /\ UNCHANGED writes
  /\ DeliveryOnly

\* executeMilestones is called; with no milestone defined the loop body never runs
ExecuteMilestones ==
  /\ delivery.pc = "idle"
  /\ writes < MaxRuns
  /\ writes' = writes + 1
  /\ delivery' = [delivery EXCEPT !.attempts = <<>>, !.i = 1,
                                  !.pc = IF delivery.milestones = <<>> THEN "report"
                                         ELSE "running"]
  /\ DeliveryOnly

AttemptMilestone(fails) ==
  /\ delivery.pc = "running"
  /\ delivery' = Attempted(delivery, fails)
  /\ UNCHANGED writes
  /\ DeliveryOnly

\* generateReport ends the call
GenerateReport ==
  /\ delivery.pc = "report"
  /\ delivery' = [delivery EXCEPT !.pc = "idle"]
  /\ UNCHANGED writes
  /\ DeliveryOnly

NextDelivery ==
  \/ DefineMilestones
  \/ ExecuteMilestones
  \/ \E fails \in BOOLEAN : AttemptMilestone(fails)
  \/ GenerateReport

SpecDelivery == InitDelivery /\ [][NextDelivery]_vars

----------------------------------------------------------------------------
(* Properties *)

\* load + fold: the document loadMetadata and applyDeltasToMetadata give for the files
LoadFold(pl, gzf, jr, now) == applyDeltasToMetadata(loadMetadata(pl, gzf), jr, now).ret

\* a document without its wall-clock stamp
Observable(v) == IF v.t = "obj" THEN Del(v, "lastUpdated") ELSE v

\* the document compactDeltas starts from
CompactionBase(pl, now) == IF pl.st = "json" THEN pl.v ELSE createDefaultMetadata(now)

\* the warning lines of the three catch blocks
Warnings == {"Could not save delta", "Could not save metadata", "Error compacting deltas"}

\* C1: compaction conservation.  For a journal of well-formed deltas, load + fold
\* after a compactDeltas that ran to its end gives the same document (the wall-clock
\* stamp aside) as load + fold gave just before it.
C1CompactionConservation ==
  [][(last'.op = "compactDeltas" /\ last'.io = {} /\ last'.wrote
      /\ ~HasGarbage(journal.lines))
       => \A now \in Times :
            Observable(LoadFold(plain', gz', journal', now))
              = Observable(LoadFold(plain, gz, journal, now))]_vars

\* C2: compactDeltas removes the journal only when every record of it was folded
\* into the snapshot it has just written; a journal with a malformed line stays.
C2TruncateOnlyAfterFold ==
  [][(last'.op = "compactDeltas" /\ journal.exists /\ ~journal'.exists)
       => /\ ~HasGarbage(journal.lines)
          /\ plain'.st = "json"
          /\ \E now \in Times :
               plain'.v = Finalize(FoldLines(CompactionBase(plain, now),
                                             journal.lines, 1, now).v, now)]_vars

\* C3: whenever the journal holds records, what initialize returns is the loaded (or
\* default) snapshot with every journal record folded in append order, validated.
C3PendingDeltasFolded ==
  (last.op = "initialize" /\ journal.exists /\ journal.lines # <<>>
   /\ ~HasGarbage(journal.lines))
    => \E now \in Times :
         last.ret = validateMetadata(
                      FoldLines(IF Truthy(loadMetadata(plain, gz))
                                THEN loadMetadata(plain, gz)
                                ELSE createDefaultMetadata(now),
                                journal.lines, 1, now).v, now)

C5EssentialFieldUpdated ==
  (call.fn = "applySingleDelta" /\ call.st = "done"
   /\ Get(call.base, "essential").t = "obj")
    => LET e  == Get(call.base, "essential")
           e2 == Get(call.ret, "essential")
           d  == call.delta
       IN /\ (d.op = "set" /\ d.field = "essential.lastSession")
               => /\ Get(e2, "lastSession") = d.value
                  /\ \A k \in DOMAIN e.o \ {"lastSession"} : Get(e2, k) = Get(e, k)
          /\ (d.op = "add" /\ d.field = "essential.projects"
              /\ Get(e, "projects").t = "arr")
               => Get(e2, "projects") = Arr(Append(Get(e, "projects").a, d.value))

\* C6: persisted-snapshot invariant.  A snapshot file an operation has just written
\* passes the schema validator with no violation.
C6PersistedSnapshotValid ==
  /\ last.wrote => (plain.st = "json" /\ validationErrors(plain.v) = {})
  /\ (last.wrote /\ last.op = "saveMetadata")
       => (gz.st = "json" /\ validationErrors(gz.v) = {})

\* C7: when the snapshot write or the journal removal fails in compactDeltas, the
\* failure is reported (the warning line is logged) and the journal holds exactly
\* the records it held before.
C7JournalIntactOnFailure ==
  [][(last'.op = "compactDeltas" /\ last'.io # {})
       => /\ "Error compacting deltas" \in last'.log
          /\ journal' = journal]_vars

\* the removal failed after the snapshot was written, and the records are still there
C7Witness ==
  /\ last.op = "compactDeltas"
  /\ last.io = {"unlink"}
  /\ last.wrote
  /\ journal.exists
  /\ Len(journal.lines) > 0

C9CorruptionDistinct ==
  (call.fn = "applyDeltasToMetadata" /\ call.st = "done" /\ HasGarbage(journal.lines))
    => \A now \in Times :
         call.ret # applyDeltasToMetadata(call.base, NoJournal, now).ret

\* C10: no partial replay.  When a line of the journal is malformed, the returned
\* document carries none of the journal's deltas (it is the base), and the caller's
\* base document is as it was.
C10NoPartialReplay ==
  (call.fn = "applyDeltasToMetadata" /\ call.st = "done" /\ HasGarbage(journal.lines))
    => (call.ret = call.base /\ call.baseAfter = call.base)

\* a well-formed delta precedes the malformed line, on a base it would change
C10Witness ==
  /\ call.fn = "applyDeltasToMetadata"
  /\ call.st = "done"
  /\ call.base = TestBase
  /\ Len(journal.lines) >= 2
  /\ journal.lines[1].kind = "delta"
  /\ journal.lines[2].kind = "garbage"
  /\ applySingleDelta(call.base, journal.lines[1], "2026-01-18T10:00:00Z") # call.base

\* the member k of the candidate's essential section (undefined when there is none)
CandidateMember(data, k) == Get(Get(data, "essential"), k)

\* the type check of each member of essential, as the schema words it
PassesTypeCheck(k, v) ==
  CASE k = "lastSession"  -> v.t = "str" /\ v.s # ""
    [] k = "stack"        -> v.t = "str" /\ v.s # ""
    [] k = "projects"     -> v.t = "arr"
    [] k = "sessionCount" -> v.t = "num"

\* C11: repairMetadata returns a document that passes the schema validator with no
\* violation, whatever candidate it is given.
C11RepairOutputValid ==
  (call.fn = "repairMetadata" /\ call.st = "done")
    => validationErrors(call.ret) = {}

\* C12: the document repair returns (repairMetadata, and validateMetadata when the
\* validation of a present candidate fails) has version 3, whatever version the
\* candidate carried.
C12RepairSetsVersion ==
  (/\ call.st = "done"
   /\ \/ call.fn = "repairMetadata"
      \/ /\ call.fn = "validateMetadata"
         /\ Truthy(call.data)
         /\ validationErrors(call.data) # {})
    => Get(call.ret, "version") = Num(3)

\* C13: repair salvages member by member: each of essential.lastSession, stack,
\* projects and sessionCount of the result is the candidate's value exactly when that
\* value passes its own type check, and the default value otherwise.
C13FieldwiseSalvage ==
  (call.fn = "repairMetadata" /\ call.st = "done")
    => \A k \in {"lastSession", "stack", "projects", "sessionCount"} :
         Get(Get(call.ret, "essential"), k)
           = IF PassesTypeCheck(k, CandidateMember(call.data, k))
             THEN CandidateMember(call.data, k)
             ELSE Get(DEFAULT_ESSENTIAL, k)

\* C14: repair is idempotent: repairing the result of a repair again, at the same
\* wall-clock time, gives that result.
C14RepairIdempotent ==
  (call.fn = "repairMetadata" /\ call.st = "done")
    => \A now \in Times : repairMetadata(call.ret, now) = call.ret

\* a candidate with an ill-typed version and a session history longer than repair
\* keeps has been repaired
C14Witness ==
  /\ call.fn = "repairMetadata"
  /\ call.st = "done"
  /\ Get(call.data, "version") = Str("invalid")
  /\ Get(call.data, "sessionHistory").t = "arr"
  /\ Len(Get(call.ret, "sessionHistory").a) < Len(Get(call.data, "sessionHistory").a)

\* C15, as claimed: validateMetadata returns its input exactly when the candidate is an
\* object whose version is a number, lastUpdated a string, essential an object with
\* non-empty strings lastSession and stack and an array projects; otherwise it returns
\* the repaired (for a missing candidate, the default) document.
C15ValidateByType ==
  (call.fn = "validateMetadata" /\ call.st = "done")
    => LET d  == call.data
           e  == Get(d, "essential")
           ok == /\ d.t = "obj"
                 /\ Get(d, "version").t = "num"
                 /\ Get(d, "lastUpdated").t = "str"
                 /\ e.t = "obj"
                 /\ PassesTypeCheck("lastSession", Get(e, "lastSession"))
                 /\ PassesTypeCheck("stack", Get(e, "stack"))
                 /\ PassesTypeCheck("projects", Get(e, "projects"))
       IN \A now \in Times :
            call.ret = IF ok THEN d
                       ELSE IF Truthy(d) THEN repairMetadata(d, now)
                       ELSE createDefaultMetadata(now)

\* C15, amended: as above, with the version a number other than 0 and lastUpdated a
\* non-empty string.
C15ValidateByTruthyType ==
  (call.fn = "validateMetadata" /\ call.st = "done")
    => LET d  == call.data
           e  == Get(d, "essential")
           ok == /\ d.t = "obj"
                 /\ Get(d, "version").t = "num" /\ Get(d, "version").n # 0
                 /\ Get(d, "lastUpdated").t = "str" /\ Get(d, "lastUpdated").s # ""
                 /\ e.t = "obj"
                 /\ PassesTypeCheck("lastSession", Get(e, "lastSession"))
                 /\ PassesTypeCheck("stack", Get(e, "stack"))
                 /\ PassesTypeCheck("projects", Get(e, "projects"))
       IN \A now \in Times :
            call.ret = IF ok THEN d
                       ELSE IF Truthy(d) THEN repairMetadata(d, now)
                       ELSE createDefaultMetadata(now)

\* a candidate that is well-typed throughout but has version 0 was repaired, not returned
C15Witness ==
  /\ call.fn = "validateMetadata"
  /\ call.st = "done"
  /\ Get(call.data, "version") = Num(0)
  /\ Get(call.data, "lastUpdated") = Str("2026-01-15T10:00:00Z")
  /\ validationErrors(Put(call.data, "version", Num(2))) = {}
  /\ call.ret # call.data
  /\ Get(call.ret, "version") = Num(3)

\* C20: loadMetadata picks its source in a fixed order: the compressed file when it
\* decodes; else the plain file when it parses (the compressed file being absent or
\* undecodable); null only when neither can be read.
C20LoadOrder ==
  (call.fn = "loadMetadata" /\ call.st = "done")
    => /\ gz.st = "json" => call.ret = gz.v
       /\ (gz.st # "json" /\ plain.st = "json") => call.ret = plain.v
       /\ (gz.st # "json" /\ plain.st # "json") => call.ret = Null

\* the keys a delta on this field path walks: every segment but the first, or the only
\* segment of a one-segment path
WalkedKeys(path) == IF Len(path) = 1 THEN path ELSE Tail(path)

\* the value a document holds under a sequence of keys
RECURSIVE ReadKeys(_, _)
ReadKeys(v, keys) == IF keys = <<>> THEN v ELSE ReadKeys(Get(v, Head(keys)), Tail(keys))

\* the document applySingleDelta works on: the base, or the default when the base is
\* missing or no object
WorkingBase(base, now) == IF base.t = "obj" THEN base ELSE createDefaultMetadata(now)

\* two field strings that differ at most in their first segment
SameButFirst(f, g) ==
  Len(Split(f)) = Len(Split(g)) /\ Tail(Split(f)) = Tail(Split(g))

C18UnknownOpIsNoOp ==
  (call.fn = "applySingleDelta" /\ call.st = "done" /\ call.base.t = "obj"
   /\ call.delta.op \notin {"set", "add", "remove"})
    => call.ret = call.base

\* C19: append-only journal.  A saveDelta whose append succeeded and that did not
\* compact leaves a journal that is the old one followed by the one new record.
C19AppendOnly ==
  [][(last'.op = "saveDelta" /\ "append" \notin last'.io /\ ~last'.compacted)
       => /\ journal'.exists
          /\ Len(journal'.lines) = Len(journal.lines) + 1
          /\ SubSeq(journal'.lines, 1, Len(journal.lines)) = journal.lines
          /\ journal'.lines[Len(journal'.lines)] \in Deltas]_vars

\* a second, different record was appended after the first
C19Witness ==
  /\ last.op = "saveDelta"
  /\ last.io = {}
  /\ Len(journal.lines) = 2
  /\ journal.lines[1] \in Deltas
  /\ journal.lines[2] \in Deltas
  /\ journal.lines[1] # journal.lines[2]

\* C21: after any sequence of addToHistory calls the history file and every
\* sessionHistory value recorded in the journal hold at most 10 entries; a call that
\* went through leaves in both the earlier entries followed by the new one, cut to
\* the 10 most recent, in insertion order.
C21HistoryCapped ==
  /\ [](history.st = "json" => Len(history.v.a) <= 10)
  /\ [](\A i \in 1..Len(journal.lines) :
          journal.lines[i].field = "sessionHistory" => Len(journal.lines[i].value.a) <= 10)
  /\ [][(last'.op = "addToHistory" /\ last'.io = {})
          => LET old   == IF history.st = "json" THEN history.v.a ELSE <<>>
                 new   == history'.v.a
                 entry == HistoryEntry(10 + writes + 1)
             IN /\ new = IF Len(old) < 10 THEN Append(old, entry)
                         ELSE Append(SubSeq(old, Len(old) - 8, Len(old)), entry)
                /\ journal'.lines[Len(journal'.lines)]
                     = DeltaLine("set", "sessionHistory", Arr(new))]_vars

\* a call on a full history went through: the oldest entry is gone from the file and
\* from the value the journal records
C21Witness ==
  /\ last.op = "addToHistory"
  /\ last.io = {}
  /\ Len(history.v.a) = 10
  /\ history.v.a[1] # HistoryEntry(1)
  /\ history.v.a[10] = HistoryEntry(10 + writes)
  /\ journal.lines[Len(journal.lines)].value = history.v

\* the project a ProjectDelta line adds is in the project list of the plain snapshot
Reflected(line, pl) ==
  /\ pl.st = "json"
  /\ \E i \in 1..Len(Get(Get(pl.v, "essential"), "projects").a) :
       Get(Get(pl.v, "essential"), "projects").a[i] = line.value

\* the line is one of the journal's
InJournal(line, jr) == \E i \in 1..Len(jr.lines) : jr.lines[i] = line

\* C22: single-writer limitation.  When compactDeltas of one instance removes the
\* journal, every delta another instance appended after that compaction read the
\* journal is gone with it and is not in the snapshot just written: an appended
\* delta is then neither in the journal nor reflected in the persisted snapshot.
C22InterleavedAppendLost ==
  [][(call.pc = "written" /\ call'.pc = "done" /\ journal.exists)
       => /\ ~journal'.exists
          /\ \A i \in (Len(call.read) + 1)..Len(journal.lines) :
               /\ ~InJournal(journal.lines[i], journal')
               /\ ~Reflected(journal.lines[i], plain')]_vars

\* a delta whose append succeeded is in neither file after the compaction
C22Witness ==
  /\ call.fn = "compactDeltas"
  /\ call.pc = "done"
  /\ last.compacted
  /\ \E i \in 1..Len(call.appended) :
       /\ ~InJournal(call.appended[i], journal)
       /\ ~Reflected(call.appended[i], plain)

\* applySingleDelta(...applySingleDelta(applySingleDelta(s, D1), D2)..., Dn) for the
\* first n lines D1..Dn
RECURSIVE LeftFold(_, _, _, _)
LeftFold(s, lines, n, now) ==
  IF n = 0 THEN s ELSE applySingleDelta(LeftFold(s, lines, n - 1, now), lines[n], now)

\* C23: fold determinism.  For a valid snapshot S and a journal of well-formed
\* deltas D1..Dn, applyDeltasToMetadata(S) returns the left fold of applySingleDelta
\* over D1..Dn in append order, a function of S and the journal alone, and leaves
\* S and the journal as they were.
C23FoldDeterminism ==
  /\ []((call.fn = "applyDeltasToMetadata" /\ call.st = "done"
          /\ validationErrors(call.base) = {} /\ ~HasGarbage(journal.lines))
        => /\ \A now \in Times :
                call.ret = LeftFold(call.base, journal.lines, Len(journal.lines), now)
           /\ call.baseAfter = call.base)
  /\ [][call.fn = "applyDeltasToMetadata" => (journal' = journal /\ call'.base = call.base)]_vars

\* a journal of three deltas whose order matters, folded into a valid snapshot
C23Witness ==
  /\ call.fn = "applyDeltasToMetadata"
  /\ call.st = "done"
  /\ call.base = ValidSnapshot
  /\ Len(journal.lines) = 3
  /\ ~HasGarbage(journal.lines)
  /\ call.ret # call.base
  /\ call.ret # FoldBackwards(call.base, journal.lines, 1, "2026-01-18T10:00:00Z").v

\* essential.sessionCount of a document
SessionCount(m) == Get(Get(m, "essential"), "sessionCount")

\* the document compactDeltas has after its fold: the loaded (or default) snapshot
\* with the journal applied
FoldedSnapshot(pl, jr, now) == applyDeltasToMetadata(CompactionBase(pl, now), jr, now).ret

\* one more than a session count; a snapshot that has no count yet counts from 0
OneGreater(c) ==
  CASE c.t = "num"   -> Num(c.n + 1)
    [] c.t = "undef" -> Num(1)
    [] OTHER         -> Undef

\* C24: every compactDeltas that ran to its end persists a snapshot whose
\* essential.sessionCount is one greater than that of the folded snapshot.
C24CompactionCounts ==
  [][(last'.op = "compactDeltas" /\ last'.io = {} /\ last'.wrote)
       => \A now \in Times :
            SessionCount(plain'.v)
              = OneGreater(SessionCount(FoldedSnapshot(plain, journal, now)))]_vars

\* C24 for a folded snapshot that has a numeric essential.sessionCount
C24CompactionCountsNumber ==
  [][(last'.op = "compactDeltas" /\ last'.io = {} /\ last'.wrote)
       => \A now \in Times :
            SessionCount(FoldedSnapshot(plain, journal, now)).t = "num"
              => SessionCount(plain'.v)
                   = Num(SessionCount(FoldedSnapshot(plain, journal, now)).n + 1)]_vars

\* C25: the persisted snapshot is changed only by compaction.  A saveDelta (the
\* file side of updateMetadata) that does not call compactDeltas leaves the plain
\* and the compressed snapshot file exactly as they were.
C25UpdateLeavesSnapshot ==
  [][(last'.op = "saveDelta" /\ ~last'.compacted) => (plain' = plain /\ gz' = gz)]_vars

\* an update was appended next to an existing snapshot without compaction
C25Witness ==
  /\ last.op = "saveDelta"
  /\ "Delta saved" \in last.log
  /\ ~last.compacted
  /\ plain = Json(ValidSnapshot)
  /\ Len(journal.lines) = COMPACT_THRESHOLD - 1

\* the step is a compactDeltas call none of whose file operations was made to fail
\* from outside
UnforcedCompaction(now) ==
  /\ last'.op = "compactDeltas"
  /\ plain' = compactDeltas(plain, journal, now, FALSE, FALSE).plain
  /\ journal' = compactDeltas(plain, journal, now, FALSE, FALSE).journal
  /\ last'.log = compactDeltas(plain, journal, now, FALSE, FALSE).log

\* C26: a forced compaction succeeds whatever the journal's length.  With a readable
\* or missing snapshot file and a journal of fewer than 50 well-formed records, an
\* empty or absent journal included, compactDeltas reports no error, persists the
\* folded snapshot and leaves no journal file.
C26ForcedCompactionSucceeds ==
  [][\A now \in Times :
       (UnforcedCompaction(now) /\ plain.st # "corrupt"
        /\ Len(journal.lines) < COMPACT_THRESHOLD /\ ~HasGarbage(journal.lines))
         => /\ "Error compacting deltas" \notin last'.log
            /\ plain' = Json(Finalize(FoldedSnapshot(plain, journal, now), now))
            /\ ~journal'.exists]_vars

\* C26 for a journal file that exists (empty or not)
C26ForcedCompactionOfExistingJournal ==
  [][\A now \in Times :
       (UnforcedCompaction(now) /\ plain.st = "json" /\ validationErrors(plain.v) = {}
        /\ journal.exists
        /\ Len(journal.lines) < COMPACT_THRESHOLD /\ ~HasGarbage(journal.lines))
         => /\ "Error compacting deltas" \notin last'.log
            /\ plain' = Json(Finalize(FoldedSnapshot(plain, journal, now), now))
            /\ ~journal'.exists]_vars

\* C27: whenever a loadPlugin(p) call returns normally, every plugin named in p's
\* dependencies is loaded at that moment.
C27DependenciesLoaded ==
  [][\A i \in 1..Len(tasks) :
       (i <= Len(tasks') /\ tasks[i].fn = "loadPlugin" /\ ~Settled(tasks[i])
        /\ tasks'[i].pc = "done")
         => \A k \in 1..Len(registry'[tasks[i].name].config.dependencies) :
              /\ registry'[tasks[i].name].config.dependencies[k] \in DOMAIN registry'
              /\ registry'[registry'[tasks[i].name].config.dependencies[k]].loaded]_vars

\* C28: getPluginMetrics agrees with the registry: total is the number of registered
\* plugins, enabled + disabled = total, loaded the number of plugins whose loaded
\* flag is set.
C28MetricsAgree ==
  [][(call'.fn = "getPluginMetrics" /\ call' # call)
       => /\ call'.ret.total = Cardinality(DOMAIN registry')
          /\ call'.ret.enabled + call'.ret.disabled = call'.ret.total
          /\ call'.ret.loaded
               = Cardinality({n \in DOMAIN registry' : registry'[n].loaded})]_vars

\* the metrics of the test: three plugins, one disabled, two loaded
C28Witness ==
  /\ call.fn = "getPluginMetrics"
  /\ call.ret = getPluginMetrics(registry)
  /\ call.ret.total = 3
  /\ call.ret.enabled = 2
  /\ call.ret.disabled = 1
  /\ call.ret.loaded = 2

\* the position of the first invocation of a retry operation that succeeds (0: none)
FirstSuccess(operation) ==
  IF \E k \in 1..Len(operation) : operation[k].ok
  THEN CHOOSE k \in 1..Len(operation) :
         operation[k].ok /\ \A j \in 1..(k - 1) : ~operation[j].ok
  ELSE 0

\* retry goes on after this failure: the retryCondition, if any, accepts the error,
\* and an AutomationError is marked retryable
Retryable(config, error) ==
  /\ config.retryCondition = "default" => error.temporary
  /\ error.automation => error.retryable

\* C29: retry invokes the operation at most maxAttempts times; when attempt
\* k <= maxAttempts is the first to succeed and every earlier failure is retryable,
\* the operation is invoked exactly k times, its k-th result is returned and no error
\* is raised (nor recorded).
C29RetryFirstSuccess ==
  [][(call.fn = "retry" /\ call.st = "pending" /\ call'.st = "done")
       => /\ call'.invoked <= call.config.maxAttempts
          /\ (/\ FirstSuccess(call.operation) \in 1..call.config.maxAttempts
              /\ \A j \in 1..(FirstSuccess(call.operation) - 1) :
                   Retryable(call.config, call.operation[j].error))
             => /\ call'.invoked = FirstSuccess(call.operation)
                /\ call'.ret = call.operation[FirstSuccess(call.operation)].value
                /\ call'.threw = "none"
                /\ handler' = handler]_vars

\* the retry of the test: two temporary failures, then success on the third and last
\* attempt
C29Witness ==
  /\ call.fn = "retry"
  /\ call.st = "done"
  /\ call.config = [maxAttempts |-> 3, retryCondition |-> "none"]
  /\ call.operation = <<Fails(PlainError("Temporary failure", TRUE)),
                        Fails(PlainError("Temporary failure", TRUE)), Succeeds("success")>>
  /\ call.invoked = 3
  /\ call.ret = "success"

\* the number of handleError calls since the last clearErrorHistory made for op
CallsFor(h, op) == Cardinality({i \in 1..Len(h.calls) : h.calls[i] = op})

\* stats.errorsByOperation[name], 0 standing for a missing property
ErrorsByOperation(stats, name) ==
  IF name \in DOMAIN stats.errorsByOperation THEN stats.errorsByOperation[name] ELSE 0

\* C30: getErrorStats reports totalErrors equal to the number of handleError calls
\* since the last clearErrorHistory and, for every operation name, errorsByOperation
\* equal to the number of those calls made for it, whether or not the calls were
\* awaited.
C30StatsCountCalls ==
  [][(call'.fn = "getErrorStats" /\ call' # call)
       => /\ call'.ret.totalErrors = Len(handler'.calls)
          /\ \A op \in Operations :
               ErrorsByOperation(call'.ret, JoinColon(op)) = CallsFor(handler', op)]_vars

\* C30 for the operation names that hold no ':'
C30StatsCountPlainNames ==
  [][(call'.fn = "getErrorStats" /\ call' # call)
       => /\ call'.ret.totalErrors = Len(handler'.calls)
          /\ \A op \in Operations :
               (\A i \in 1..Len(handler'.calls) : Len(handler'.calls[i]) = 1)
                 => ErrorsByOperation(call'.ret, JoinColon(op)) = CallsFor(handler', op)]_vars

\* the number of elements of the array arr that equal v
Occurrences(arr, v) == Cardinality({i \in 1..Len(arr.a) : arr.a[i] = v})

\* the number of lines of the journal that add v to essential.projects
ProjectAdds(lines, v) ==
  Cardinality({i \in 1..Len(lines) :
                 lines[i] = DeltaLine("add", "root.essential.projects", v)})

\* the sum of the numbers the lines add to essential.sessionCount
RECURSIVE CountAdds(_, _)
CountAdds(lines, n) ==
  IF n = 0 THEN 0
  ELSE CountAdds(lines, n - 1)
       + (IF lines[n].field = "root.essential.sessionCount" THEN lines[n].value.n ELSE 0)

\* C31: at-least-once folding.  A compactDeltas that fails to remove the journal has
\* already written the folded snapshot; the next compaction folds the same records
\* into that snapshot: an array add appends its value a second time and a numeric add
\* is accumulated a second time.
C31FoldedAgain ==
  /\ []((last.op = "compactDeltas" /\ last.io = {"unlink"} /\ journal.exists)
          => (last.wrote /\ plain.st = "json"))
  /\ [][(last.op = "compactDeltas" /\ last.io = {"unlink"} /\ last.wrote /\ journal.exists
         /\ last'.wrote)
          => /\ journal.lines # <<>>
             /\ Occurrences(Get(Get(plain.v, "essential"), "projects"), Str("toku-tracker"))
                  >= ProjectAdds(journal.lines, Str("toku-tracker"))
             /\ Occurrences(Get(Get(plain'.v, "essential"), "projects"), Str("toku-tracker"))
                  = Occurrences(Get(Get(plain.v, "essential"), "projects"), Str("toku-tracker"))
                    + ProjectAdds(journal.lines, Str("toku-tracker"))
             /\ SessionCount(plain'.v)
                  = Num(SessionCount(plain.v).n + CountAdds(journal.lines, Len(journal.lines))
                        + 1)]_vars

\* both add deltas were folded twice into the valid snapshot (count 5, one project)
C31Witness ==
  /\ last.op = "compactDeltas"
  /\ last.wrote
  /\ writes = 2
  /\ journal.exists => journal.lines = <<DeltaLine("add", "root.essential.projects", Str("toku-tracker")),
                                         DeltaLine("add", "root.essential.sessionCount", Num(2))>>
  /\ plain.st = "json"
  /\ Get(Get(plain.v, "essential"), "projects")
       = Arr(<<Str("iron-tracker"), Str("toku-tracker"), Str("toku-tracker")>>)
  /\ SessionCount(plain.v) = Num(11)

\* what initialize of a new loader would return for the files: load + fold, validated
LoadedNow(pl, gzf, jr, mdExists, now) == initialize(pl, gzf, jr, mdExists, Null, now).ret

\* C32: in-memory state refines persisted state.  When this.metadata is what load +
\* fold gives for the files (the wall-clock stamp aside), it still is after an
\* updateMetadata('essential.K', v) whose delta was appended.
C32MemoryRefinesDisk ==
  [][\A now \in Times :
       (/\ last'.op = "updateMetadata"
        /\ last'.io = {}
        /\ Truthy(metadata)
        /\ Observable(metadata) = Observable(LoadedNow(plain, gz, journal, md, now)))
         => Observable(metadata') = Observable(LoadedNow(plain', gz', journal', md', now))]_vars

\* C33: bounded journal.  Whenever a saveDelta call none of whose file operations
\* failed has returned, the journal holds fewer than 50 records, whatever the
\* snapshot file is (absent, valid JSON, unparseable).
C33JournalBounded ==
  (last.op = "saveDelta" /\ last.io = {}) => Len(journal.lines) < COMPACT_THRESHOLD

\* C33 for a snapshot file that is absent or parses
C33JournalBoundedParsable ==
  (last.op = "saveDelta" /\ last.io = {} /\ plain.st # "corrupt")
    => Len(journal.lines) < COMPACT_THRESHOLD

\* C34: in every state of the registry a loaded plugin is enabled, also when
\* loadPlugin, unloadPlugin, enablePlugin and disablePlugin calls overlap.
C34LoadedImpliesEnabled ==
  \A n \in DOMAIN registry : registry[n].loaded => registry[n].enabled

\* C35: two overlapping loadPlugin calls for the same plugin do not both construct an
\* instance and run its initialize.
C35OneInitialize ==
  \A i \in 1..Len(tasks), j \in 1..Len(tasks) :
    (i # j /\ tasks[i].pc = "initializing" /\ tasks[j].pc = "initializing")
      => tasks[i].target # tasks[j].target

\* the attempt at which retry gives up: the first failure that is not retryable or
\* is the last attempt allowed, no attempt before it having succeeded (0: none)
GivesUpAt(operation, config) ==
  IF \E k \in 1..config.maxAttempts :
       /\ \A j \in 1..k : ~operation[j].ok
       /\ (k = config.maxAttempts \/ ~Retryable(config, operation[k].error))
  THEN CHOOSE k \in 1..config.maxAttempts :
         /\ \A j \in 1..k : ~operation[j].ok
         /\ (k = config.maxAttempts \/ ~Retryable(config, operation[k].error))
         /\ \A j \in 1..(k - 1) : Retryable(config, operation[j].error)
  ELSE 0

\* C36: retry stops at the first failure that is not retryable, and at the last
\* attempt when all fail: the operation is not invoked again, handleError is called
\* exactly once, with that error, and that error is thrown to the caller.
C36RetryGivesUp ==
  [][(call.fn = "retry" /\ call.st = "pending" /\ call'.st = "done"
      /\ GivesUpAt(call.operation, call.config) > 0)
       => /\ call'.invoked = GivesUpAt(call.operation, call.config)
          /\ call'.thrown = {call.operation[GivesUpAt(call.operation, call.config)].error}
          /\ handler' = handleError(handler,
                                    call.operation[GivesUpAt(call.operation,
                                                             call.config)].error,
                                    <<"retry-test">>)
          /\ Len(handler'.calls) = Len(handler.calls) + 1]_vars

\* a temporary failure, then a non-retryable AutomationError on the second of three
\* attempts
C36Witness ==
  /\ call.fn = "retry"
  /\ call.st = "done"
  /\ call.config = [maxAttempts |-> 3, retryCondition |-> "none"]
  /\ call.operation = <<Fails(PlainError("Temporary failure", TRUE)),
                        Fails(AutomationError("Fatal", FALSE)), Succeeds("success")>>
  /\ call.invoked = 2
  /\ call.thrown = {AutomationError("Fatal", FALSE)}
  /\ ErrorCount(handler.errorCounts, <<"retry-test", "Fatal">>) = 1

\* C37: a set call that fails validation throws and leaves the configuration in memory as
\* it was: get of every key returns after the call what it returned before it
C37FailedSetChangesNothing ==
  [][(call'.fn = "set" /\ call'.threw = "validation")
       => \A keys \in ConfigKeys :
            ConfigGet(appConfig'.config, keys) = ConfigGet(appConfig.config, keys)]_vars

\* the part of C37 that holds: every set that does not pass validation throws
C37FailedSetThrows ==
  [][(call'.fn = "set" /\ ~validateConfig(Assign(appConfig.config, call'.key, call'.value))
        /\ call'.key[Len(call'.key)] # "")
       => call'.threw = "validation"]_vars

\* the milestone a pass of the loop has just attempted
JustAttempted == delivery'.attempts[Len(delivery'.attempts)]

\* C38: within a call of executeMilestones the work of a milestone runs only if every
\* milestone it depends on is recorded as successful at that moment; a milestone with an
\* unmet dependency is recorded as failed and its work is not run; and the milestones
\* attempted are the first ones of the definition, in its order, each once
C38DependenciesFirst ==
  /\ [](delivery.pc # "idle" =>
          /\ Len(delivery.attempts) <= Len(delivery.milestones)
          /\ \A j \in 1..Len(delivery.attempts) :
               delivery.attempts[j].name = delivery.milestones[j].name)
  /\ [][(delivery.pc = "running" /\ delivery' # delivery) =>
          LET milestone == delivery.milestones[delivery.i]
              met == \A j \in 1..Len(milestone.dependencies) :
                       Successful(delivery.results, milestone.dependencies[j])
          IN  /\ delivery'.attempts = Append(delivery.attempts, JustAttempted)
              /\ JustAttempted.name = milestone.name
              /\ JustAttempted.worked => met
              /\ ~met => /\ ~JustAttempted.worked
                         /\ ~Successful(delivery'.results, milestone.name)
                         /\ milestone.name \in DOMAIN delivery'.results]_vars

\* a call has run the work of a milestone that has a dependency, and has recorded a
\* later milestone as failed without running its work
C38Witness ==
  /\ \E j \in 1..Len(delivery.attempts) :
       delivery.attempts[j].worked /\ delivery.milestones[j].dependencies # <<>>
  /\ \E j \in 1..Len(delivery.attempts) :
       /\ ~delivery.attempts[j].worked
       /\ ~Successful(delivery.results, delivery.attempts[j].name)

============================================================================
